---- MODULE Spec2Model ----
(***************************************************************************)
(* A model of the posixmq crate (src/posixmq.rs): the wrapper's calls, the *)
(* retry loop, the deadline conversions and the name normalisation, over a *)
(* model of the kernel's message queues as the crate's documentation       *)
(* describes them.                                                         *)
(*                                                                         *)
(* Integers are scaled: time_t is a signed integer of TimeBits bits and    *)
(* Duration's seconds an unsigned integer of the same width, which keeps   *)
(* the relation of i64 to u64 that the conversions depend on.              *)
(***************************************************************************)
EXTENDS Integers, Sequences, FiniteSets, TLC

VARIABLES
    build,     \* the build profile: with or without integer overflow checks
    os,        \* the platform the crate is built for
    now,       \* CLOCK_REALTIME, as SystemTime::now() reads it
    queues,    \* kernel: the message queue objects
    names,     \* kernel: the names in use, as pairs <<name, queue>>
    fds,       \* kernel: descriptor -> open description (a PosixMq owns one)
    mq,        \* the caller's PosixMq values: value -> its descriptor
    raw,       \* the raw descriptors the caller holds, taken out of a PosixMq
    th,        \* each thread's position: idle, or inside a call
    ret,       \* the call that has just returned, to its caller
    arrivals,  \* history: per queue, the messages in it in the order sent
    acct,      \* history: per queue, sends returned Ok less receives returned Ok
    hist       \* history: per thread, the outcome of its last call

vars == <<build, os, now, queues, names, fds, mq, raw, th, ret, arrivals, acct, hist>>

----------------------------------------------------------------------------
(* Bounds of the model *)

TimeBits == 5
MaxClock == 2
MaxIntr == 2
Capacity == 2
MaxMsgLen == 2
LongBits == 5

(* Program constants *)

NANO == 1000000000
CSTR_BUF_SIZE == 32
MaxPrioLinux == 32767
MaxPrioNetBSD == 31
DefaultCapacityLinux == 10
DefaultCapacityNetBSD == 32
DefaultMaxMsgLenLinux == 8192
DefaultMaxMsgLenNetBSD == 992

----------------------------------------------------------------------------
(* time_t, Duration, SystemTime, timespec *)

TIME_MAX == 2^(TimeBits - 1) - 1
TIME_MIN == -(2^(TimeBits - 1))
U64_MAX == 2^TimeBits - 1

\* x as time_t, and the result of wrapping arithmetic on time_t
AsTimeT(x) == ((x - TIME_MIN) % (2^TimeBits)) + TIME_MIN

Duration(secs, nanos) == [res |-> "Duration", secs |-> secs, nanos |-> nanos]

\* A SystemTime, held as what duration_since(UNIX_EPOCH) returns for it:
\* Ok(d) for a point d after the epoch, Err(d) for a point d before it.
SystemTime(res, secs, nanos) == [res |-> res, secs |-> secs, nanos |-> nanos]

new_timespec(secs, nsecs) == [tv_sec |-> secs, tv_nsec |-> nsecs]

DurationGt(a, b) ==
    \/ a.secs > b.secs
    \/ a.secs = b.secs /\ a.nanos > b.nanos

\* The build profiles: "debug" checks integer arithmetic for overflow and
\* panics on it, "release" lets it wrap
Builds == {"debug", "release"}

\* Whether -x, x - 1 overflow time_t
NegOverflows(x) == x = TIME_MIN
DecOverflows(x) == x = TIME_MIN

\* The result of deadline_to_realtime: [ok, panic, ts]; ok for Ok(ts) and not
\* for Err(ts); panic when an overflow check stops the conversion
deadline_to_realtime(deadline) ==
    LET d == Duration(deadline.secs, deadline.nanos)
        Panics == [ok |-> FALSE, panic |-> TRUE, ts |-> new_timespec(0, 0)]
    IN
    IF deadline.res = "Ok"
    THEN IF d.secs > TIME_MAX
         THEN [ok |-> FALSE, panic |-> FALSE, ts |-> new_timespec(TIME_MAX, 0)]
         ELSE [ok |-> TRUE, panic |-> FALSE,
               ts |-> new_timespec(AsTimeT(d.secs), d.nanos)]
    ELSE IF DurationGt(d, Duration(TIME_MAX + 1, 0))
         THEN [ok |-> FALSE, panic |-> FALSE, ts |-> new_timespec(TIME_MIN + 1, 0)]
         ELSE IF d.nanos = 0
              THEN IF build = "debug" /\ NegOverflows(AsTimeT(d.secs))
                   THEN Panics
                   ELSE [ok |-> TRUE, panic |-> FALSE,
                         ts |-> new_timespec(AsTimeT(-AsTimeT(d.secs)), 0)]
              ELSE IF /\ build = "debug"
                      /\ \/ NegOverflows(AsTimeT(d.secs))
                         \/ DecOverflows(AsTimeT(-AsTimeT(d.secs)))
                   THEN Panics
                   ELSE [ok |-> TRUE, panic |-> FALSE,
                         ts |-> new_timespec(AsTimeT(AsTimeT(-AsTimeT(d.secs)) - 1),
                                             NANO - d.nanos)]

\* SystemTime::now()
SystemTimeNow == SystemTime("Ok", now.tv_sec, now.tv_nsec)

\* A conversion that drops the part of the timeout below a second
timeout_to_realtime_whole(timeout) ==
    LET n == deadline_to_realtime(SystemTimeNow) IN
    IF n.ok
    THEN LET sec1 == AsTimeT(n.ts.tv_sec + AsTimeT(timeout.secs))
         IN  IF timeout.secs > TIME_MAX \/ sec1 < n.ts.tv_sec
             THEN [ok |-> FALSE, kind |-> "InvalidInput", ts |-> new_timespec(0, 0)]
             ELSE [ok |-> TRUE, kind |-> "Ok", ts |-> new_timespec(sec1, n.ts.tv_nsec)]
    ELSE [ok |-> FALSE, kind |-> "Other", ts |-> new_timespec(0, 0)]

\* A conversion that trusts the wrapped sum alone to show a timeout too long
timeout_to_realtime_wrapped(timeout) ==
    LET n == deadline_to_realtime(SystemTimeNow) IN
    IF n.ok
    THEN LET sec1  == AsTimeT(n.ts.tv_sec + AsTimeT(timeout.secs))
             nsec1 == n.ts.tv_nsec + timeout.nanos
             sec2  == AsTimeT(sec1 + (nsec1 \div NANO))
             nsec2 == nsec1 % NANO
         IN  IF sec2 < n.ts.tv_sec
             THEN [ok |-> FALSE, kind |-> "InvalidInput", ts |-> new_timespec(0, 0)]
             ELSE [ok |-> TRUE, kind |-> "Ok", ts |-> new_timespec(sec2, nsec2)]
    ELSE [ok |-> FALSE, kind |-> "Other", ts |-> new_timespec(0, 0)]

\* A conversion that leaves the sum of the nanoseconds as it is
timeout_to_realtime_uncarried(timeout) ==
    LET n == deadline_to_realtime(SystemTimeNow) IN
    IF n.ok
    THEN LET sec1  == AsTimeT(n.ts.tv_sec + AsTimeT(timeout.secs))
             nsec1 == n.ts.tv_nsec + timeout.nanos
         IN  IF timeout.secs > TIME_MAX \/ sec1 < n.ts.tv_sec
             THEN [ok |-> FALSE, kind |-> "InvalidInput", ts |-> new_timespec(0, 0)]
             ELSE [ok |-> TRUE, kind |-> "Ok", ts |-> new_timespec(sec1, nsec1)]
    ELSE [ok |-> FALSE, kind |-> "Other", ts |-> new_timespec(0, 0)]

\* The result of timeout_to_realtime: [ok, kind, ts]
timeout_to_realtime(timeout) ==
    LET n == deadline_to_realtime(SystemTimeNow) IN
    IF n.ok
    THEN LET sec1  == AsTimeT(n.ts.tv_sec + AsTimeT(timeout.secs))
             nsec1 == n.ts.tv_nsec + timeout.nanos
             sec2  == AsTimeT(sec1 + (nsec1 \div NANO))
             nsec2 == nsec1 % NANO
         IN  IF timeout.secs > TIME_MAX \/ sec2 < n.ts.tv_sec
             THEN [ok |-> FALSE, kind |-> "InvalidInput", ts |-> new_timespec(0, 0)]
             ELSE [ok |-> TRUE, kind |-> "Ok", ts |-> new_timespec(sec2, nsec2)]
    ELSE [ok |-> FALSE, kind |-> "Other", ts |-> new_timespec(0, 0)]

\* A conversion that reports a deadline already passed without asking the kernel
deadline_arg_expired(deadline) ==
    LET r == deadline_to_realtime(deadline) IN
    IF ~r.ok
    THEN [ok |-> FALSE, kind |-> "InvalidInput", ts |-> new_timespec(0, 0)]
    ELSE IF \/ r.ts.tv_sec < now.tv_sec
            \/ r.ts.tv_sec = now.tv_sec /\ r.ts.tv_nsec <= now.tv_nsec
         THEN [ok |-> FALSE, kind |-> "TimedOut", ts |-> r.ts]
         ELSE [ok |-> TRUE, kind |-> "Ok", ts |-> r.ts]

\* A conversion that takes the deadline for a time from now
deadline_arg_relative(deadline) ==
    timeout_to_realtime(Duration(deadline.secs, deadline.nanos))

\* A conversion that goes on with the saturated deadline
deadline_arg_saturated(deadline) ==
    [ok |-> TRUE, kind |-> "Ok", ts |-> deadline_to_realtime(deadline).ts]

\* The conversion send_deadline and receive_deadline apply to their argument
deadline_arg(deadline) ==
    LET r == deadline_to_realtime(deadline) IN
    IF r.panic THEN [ok |-> FALSE, kind |-> "panic", ts |-> new_timespec(0, 0)]
    ELSE IF r.ok THEN [ok |-> TRUE, kind |-> "Ok", ts |-> r.ts]
    ELSE [ok |-> FALSE, kind |-> "InvalidInput", ts |-> new_timespec(0, 0)]

----------------------------------------------------------------------------
(* Errors: errno values and the io::ErrorKind the standard library gives them *)

Errnos == {"EINTR", "EAGAIN", "ETIMEDOUT", "EINVAL", "EMSGSIZE", "EBADF",
           "EEXIST", "ENOENT", "EACCES", "EMFILE", "ENOSPC"}

ErrorKind(errno) ==
    CASE errno = "EINTR"     -> "Interrupted"
      [] errno = "EAGAIN"    -> "WouldBlock"
      [] errno = "ETIMEDOUT" -> "TimedOut"
      [] errno = "EINVAL"    -> "InvalidInput"
      [] errno = "EEXIST"    -> "AlreadyExists"
      [] errno = "ENOENT"    -> "NotFound"
      [] errno = "EACCES"    -> "PermissionDenied"
      [] OTHER               -> "Other"

\* A loop that returns every error, EINTR too
retry_if_interrupted_never(r, errno) ==
    IF r # -1 THEN "break" ELSE "return"

\* A loop that takes only 0 for success
retry_if_interrupted_zero(r, errno) ==
    IF r = 0 THEN "break"
    ELSE IF ErrorKind(errno) # "Interrupted" THEN "return"
    ELSE "loop"

\* A loop that looks at errno before it looks at the return value
retry_if_interrupted_errno(r, errno) ==
    IF ErrorKind(errno) = "Interrupted" THEN "loop"
    ELSE IF r # -1 THEN "break"
    ELSE "return"

\* What one turn of the retry loop does with a kernel return value and the
\* errno it finds: leave the loop with the value, return the error, or loop.
retry_if_interrupted(r, errno) ==
    IF r # -1 THEN "break"
    ELSE IF ErrorKind(errno) # "Interrupted" THEN "return"
    ELSE "loop"

----------------------------------------------------------------------------
(* The platforms, as the crate's documentation and tests describe them *)

Platforms == {"linux", "netbsd"}

MQ_PRIO_MAX == [p \in Platforms |-> IF p = "linux" THEN MaxPrioLinux ELSE MaxPrioNetBSD]
AllowsEmpty == [p \in Platforms |-> p = "linux"]
RejectsNegativeDeadline == [p \in Platforms |-> p = "linux"]
EnforcesNameRules == [p \in Platforms |-> p = "linux"]
DefaultCapacity ==
    [p \in Platforms |->
        IF p = "linux" THEN DefaultCapacityLinux ELSE DefaultCapacityNetBSD]
DefaultMaxMsgLen ==
    [p \in Platforms |->
        IF p = "linux" THEN DefaultMaxMsgLenLinux ELSE DefaultMaxMsgLenNetBSD]

----------------------------------------------------------------------------
(* OpenOptions: flags is the set of the bits that are set (O_RDONLY is 0) *)

O_ACCMODE == {"O_WRONLY", "O_RDWR"}

new(flags) == [flags |-> flags, mode |-> 384, capacity |-> 0, max_msg_len |-> 0]

readonly == new({})
writeonly == new({"O_WRONLY"})
readwrite == new({"O_RDWR"})

mode(opts, m) == [opts EXCEPT !.mode = m]
max_msg_len(opts, n) == [opts EXCEPT !.max_msg_len = n]
capacity(opts, n) == [opts EXCEPT !.capacity = n]
\* A create() that leaves an earlier request for exclusive creation in place
create_keeping_excl(opts) == [opts EXCEPT !.flags = @ \cup {"O_CREAT"}]
create(opts) == [opts EXCEPT !.flags = (@ \cup {"O_CREAT"}) \ {"O_EXCL"}]
\* A create_new() that does not ask for exclusive creation
create_new_shared(opts) == [opts EXCEPT !.flags = @ \cup {"O_CREAT"}]

create_new(opts) == [opts EXCEPT !.flags = @ \cup {"O_CREAT", "O_EXCL"}]
existing(opts) == [opts EXCEPT !.flags = @ \ {"O_CREAT", "O_EXCL"}]
\* A nonblocking() that sets the wrong flag
nonblocking_excl(opts) == [opts EXCEPT !.flags = @ \cup {"O_EXCL"}]

nonblocking(opts) == [opts EXCEPT !.flags = @ \cup {"O_NONBLOCK"}]

----------------------------------------------------------------------------
(* The kernel's queues *)

FDs == {1, 2, 3}
QIds == {1, 2}

Msg(prio, body) == [prio |-> prio, body |-> body]

NoQueue == [live |-> FALSE, capacity |-> 0, max_msg_len |-> 0, msgs |-> <<>>]
Closed ==
    [open |-> FALSE, q |-> 0, nonblocking |-> FALSE, acc |-> "O_RDONLY",
     cloexec |-> FALSE, file |-> 0]

\* The PosixMq values the caller may hold at a time; mqd is the descriptor
\* of a value, and failed is history: attributes() has found it invalid
Values == {1, 2}
NoMqd == 0
PosixMq(mqd) == [mqd |-> mqd, failed |-> FALSE]
NoMq == PosixMq(NoMqd)

\* The kernel keeps a queue in delivery order: a message goes behind every
\* queued message of its priority or higher.
Insert(msgs, m) ==
    LET k == Cardinality({i \in 1..Len(msgs) : msgs[i].prio >= m.prio})
    IN  SubSeq(msgs, 1, k) \o <<m>> \o SubSeq(msgs, k + 1, Len(msgs))

\* History: of the messages in arrival order, the oldest of the highest priority
OldestHighest(log) ==
    CHOOSE i \in 1..Len(log) :
        /\ \A j \in 1..Len(log) : log[j].prio <= log[i].prio
        /\ \A j \in 1..(i - 1) : log[j].prio < log[i].prio

Remove(log, i) == SubSeq(log, 1, i - 1) \o SubSeq(log, i + 1, Len(log))

NoDeadline == [timed |-> FALSE, ts |-> new_timespec(0, 0)]
Timed(ts) == [timed |-> TRUE, ts |-> ts]

\* The kernel's clock has reached the absolute time ts
Expired(ts) ==
    \/ ts.tv_sec < now.tv_sec
    \/ ts.tv_sec = now.tv_sec /\ ts.tv_nsec <= now.tv_nsec

\* A descriptor of the open description numbered file, for queue q, with the
\* flags mq_open was given. Descriptors made by duplication have the same
\* description, where the kernel keeps O_NONBLOCK.
OpenFile(flags, q, file) ==
    [open |-> TRUE, q |-> q, nonblocking |-> "O_NONBLOCK" \in flags,
     acc |-> IF "O_RDWR" \in flags THEN "O_RDWR"
             ELSE IF "O_WRONLY" \in flags THEN "O_WRONLY" ELSE "O_RDONLY",
     cloexec |-> TRUE, file |-> file]

\* An open description has the number of the lowest descriptor there is of
\* it: a new one that of the descriptor mq_open returns for it, the lowest
\* that is free
FreshFile ==
    LET free == {f \in FDs : ~fds[f].open}
    IN  CHOOSE x \in free : \A y \in free : x <= y

\* The descriptors ds with their descriptions numbered anew
Numbered(ds) ==
    [f \in FDs |->
        IF ds[f].open
        THEN LET same == {g \in FDs : ds[g].open /\ ds[g].file = ds[f].file}
             IN  [ds[f] EXCEPT !.file = CHOOSE x \in same : \A y \in same : x <= y]
        ELSE ds[f]]

\* The open description mq_open makes for queue q from the flags it is given
Description(flags, q) == OpenFile(flags, q, FreshFile)

\* The queue mq_open creates from the limits it is given
NewQueue(cap, len) ==
    [live |-> TRUE, capacity |-> cap, max_msg_len |-> len, msgs |-> <<>>]

Readable(d) == d.open /\ d.acc \in {"O_RDONLY", "O_RDWR"}
Writable(d) == d.open /\ d.acc \in {"O_WRONLY", "O_RDWR"}

IsSend(op) == op \in {"send", "send_timeout", "send_deadline"}

\* The threads asleep in the kernel on queue q, sending or receiving
Waiting(q, sending) ==
    {t \in DOMAIN th : /\ th[t].st = "blocked"
                       /\ fds[th[t].h].q = q
                       /\ IsSend(th[t].op) = sending}

\* mq_send and mq_timedsend, up to the point where the message is queued or
\* the caller has to wait: "err" with an errno, "go", or "wait".
mq_timedsend(mqd, msg, len, prio, abs) ==
    LET d == fds[mqd]
        q == queues[d.q]
    IN  IF abs.timed /\ abs.ts.tv_sec < 0 /\ RejectsNegativeDeadline[os]
        THEN [tag |-> "err", errno |-> "EINVAL"]
        ELSE IF prio > MQ_PRIO_MAX[os] THEN [tag |-> "err", errno |-> "EINVAL"]
        ELSE IF ~Writable(d) THEN [tag |-> "err", errno |-> "EBADF"]
        ELSE IF len > q.max_msg_len \/ (len = 0 /\ ~AllowsEmpty[os])
             THEN [tag |-> "err", errno |-> "EMSGSIZE"]
        ELSE IF Len(q.msgs) < q.capacity THEN [tag |-> "go", errno |-> "none"]
        ELSE IF d.nonblocking THEN [tag |-> "err", errno |-> "EAGAIN"]
        ELSE [tag |-> "wait", errno |-> "none"]

\* mq_receive and mq_timedreceive, likewise
mq_timedreceive(mqd, buflen, abs) ==
    LET d == fds[mqd]
        q == queues[d.q]
    IN  IF abs.timed /\ abs.ts.tv_sec < 0 /\ RejectsNegativeDeadline[os]
        THEN [tag |-> "err", errno |-> "EINVAL"]
        ELSE IF ~Readable(d) THEN [tag |-> "err", errno |-> "EBADF"]
        ELSE IF buflen < q.max_msg_len THEN [tag |-> "err", errno |-> "EMSGSIZE"]
        ELSE IF Len(q.msgs) > 0 THEN [tag |-> "go", errno |-> "none"]
        ELSE IF d.nonblocking THEN [tag |-> "err", errno |-> "EAGAIN"]
        ELSE [tag |-> "wait", errno |-> "none"]


----------------------------------------------------------------------------
(* The wrapper's calls *)

Threads == {"main", "peer", "short", "long"}

Idle == [st |-> "idle"]
NoRet == [t |-> "none"]
NoOut == [val |-> -1, prio |-> 0, data |-> <<>>, expect |-> Msg(0, <<>>), pos |-> 0]

\* A send that keeps the low bits of the priority
send_low(priority, msg) ==
    [mptr |-> msg, len |-> Len(msg), priority |-> priority % (MaxPrioNetBSD + 1)]

\* What send and timedsend pass to the kernel for (priority, msg)
send(priority, msg) == [mptr |-> msg, len |-> Len(msg), priority |-> priority]

\* A receive that tells the kernel the buffer is one byte longer than it is
receive_longer(msgbuf_len) == [len |-> msgbuf_len + 1]

\* What receive and timedreceive pass to the kernel for msgbuf
receive(msgbuf_len) == [len |-> msgbuf_len]

\* A receive that returns the pair the wrong way round
receive_ok_swapped(priority, len) == [priority |-> len, len |-> priority]

\* What receive and timedreceive return for the kernel's priority and length
receive_ok(priority, len) == [priority |-> priority, len |-> len]

\* The argument of a timed call, converted to the kernel's absolute time
Convert(op, arg) ==
    CASE op \in {"send_timeout", "receive_timeout"} -> timeout_to_realtime(arg)
      [] op \in {"send_deadline", "receive_deadline"} -> deadline_arg(arg)
      [] OTHER -> [ok |-> TRUE, kind |-> "Ok", ts |-> new_timespec(0, 0)]

\* A retry that converts the caller's argument again
RetryDeadline_again(c) ==
    IF c.expires.timed THEN [c.expires EXCEPT !.ts = Convert(c.op, c.arg).ts]
    ELSE c.expires

\* The deadline a retry of timedsend or timedreceive passes to the kernel
RetryDeadline(c) == c.expires

\* The message the kernel takes from a caller's arguments
KernelMsg(c) ==
    LET a == send(c.prio, c.msg)
    IN  Msg(a.priority, SubSeq(a.mptr, 1, a.len))

KernelCall(c) ==
    IF IsSend(c.op)
    THEN LET a == send(c.prio, c.msg)
         IN  mq_timedsend(c.h, a.mptr, a.len, a.priority, c.expires)
    ELSE mq_timedreceive(c.h, receive(c.buflen).len, c.expires)

\* The caller's thread after one turn of the retry loop
TurnTh(c, val, errno) ==
    IF retry_if_interrupted(val, errno) = "loop"
    THEN [c EXCEPT !.st = "retry", !.out = NoOut]
    ELSE Idle

\* The messages in the queue of descriptor mqd, none if it is not open
Queued(mqd) == IF fds[mqd].open THEN queues[fds[mqd].q].msgs ELSE <<>>

\* An error returned to the caller
Err(t, c, kind, errno) ==
    [t |-> t, c |-> c, kind |-> kind, errno |-> errno, prio |-> 0, len |-> 0,
     data |-> <<>>, expect |-> Msg(0, <<>>), pos |-> 0,
     before |-> Queued(c.h)]

\* What the call returns, if this turn of the loop ends it; ret.before is
\* the queue as it was when this step began.
TurnRet(t, c, val, errno, out) ==
    LET dec == retry_if_interrupted(val, errno)
        r   == receive_ok(out.prio, val)
    IN  CASE dec = "break" ->
                [t |-> t, c |-> c, kind |-> "Ok", errno |-> "none",
                 prio |-> IF IsSend(c.op) THEN 0 ELSE r.priority,
                 len |-> IF IsSend(c.op) THEN 0 ELSE r.len,
                 data |-> out.data, expect |-> out.expect, pos |-> out.pos,
                 before |-> Queued(c.h)]
          [] dec = "return" -> Err(t, c, ErrorKind(errno), errno)
          [] OTHER -> NoRet

TurnAcct(c, val, errno) ==
    LET q == fds[c.h].q IN
    IF retry_if_interrupted(val, errno) = "break"
    THEN [acct EXCEPT ![q] = IF IsSend(c.op) THEN @ + 1 ELSE @ - 1]
    ELSE acct

\* errno is left alone by a kernel call that succeeds: the loop, should it
\* read errno then, finds what an earlier failure left there.
Stale == {"EINTR", "EBADF"}

\* The kernel queues the message of a send; a receiver asleep on the queue
\* is handed the message directly and made ready to return.
SendEffect(t, c, e) ==
    LET q    == fds[c.h].q
        m    == KernelMsg(c)
        log  == Append(arrivals[q], Msg(c.prio, c.msg))
        i    == OldestHighest(log)
    IN  IF Waiting(q, FALSE) # {}
        THEN \E r \in Waiting(q, FALSE) :
                /\ th' = [th EXCEPT
                            ![t] = TurnTh(c, 0, e),
                            ![r] = [@ EXCEPT !.st = "ready",
                                     !.out = [val |-> Len(m.body), prio |-> m.prio,
                                              data |-> m.body, expect |-> log[i],
                                              pos |-> i]]]
                /\ arrivals' = [arrivals EXCEPT ![q] = Remove(log, i)]
                /\ UNCHANGED queues
        ELSE /\ th' = [th EXCEPT ![t] = TurnTh(c, 0, e)]
             /\ queues' = [queues EXCEPT ![q].msgs = Insert(@, m)]
             /\ arrivals' = [arrivals EXCEPT ![q] = log]

\* The kernel takes the first message for a receive; a sender asleep on the
\* full queue has its message queued and is made ready to return.
ReceiveEffect(t, c, e) ==
    LET q    == fds[c.h].q
        m    == Head(queues[q].msgs)
        rest == Tail(queues[q].msgs)
        i    == OldestHighest(arrivals[q])
        log  == Remove(arrivals[q], i)
    IN  IF Waiting(q, TRUE) # {}
        THEN \E s \in Waiting(q, TRUE) :
                /\ th' = [th EXCEPT
                            ![t] = TurnTh(c, Len(m.body), e),
                            ![s] = [@ EXCEPT !.st = "ready",
                                     !.out = [NoOut EXCEPT !.val = 0]]]
                /\ queues' = [queues EXCEPT ![q].msgs = Insert(rest, KernelMsg(th[s]))]
                /\ arrivals' = [arrivals EXCEPT
                                    ![q] = Append(log, Msg(th[s].prio, th[s].msg))]
        ELSE /\ th' = [th EXCEPT ![t] = TurnTh(c, Len(m.body), e)]
             /\ queues' = [queues EXCEPT ![q].msgs = rest]
             /\ arrivals' = [arrivals EXCEPT ![q] = log]

\* One kernel call of the retry loop, and the loop's turn on what it returns
Attempt(t, c) ==
    LET k == KernelCall(c)
        q == fds[c.h].q
    IN  CASE k.tag = "err" ->
                /\ th' = [th EXCEPT ![t] = TurnTh(c, -1, k.errno)]
                /\ ret' = TurnRet(t, c, -1, k.errno, NoOut)
                /\ acct' = TurnAcct(c, -1, k.errno)
                /\ UNCHANGED <<queues, arrivals>>
          [] k.tag = "wait" ->
                /\ th' = [th EXCEPT ![t] = [c EXCEPT !.st = "blocked"]]
                /\ ret' = NoRet
                /\ UNCHANGED <<queues, arrivals, acct>>
          [] k.tag = "go" /\ IsSend(c.op) ->
                \E e \in Stale :
                    /\ SendEffect(t, c, e)
                    /\ ret' = TurnRet(t, c, 0, e, NoOut)
                    /\ acct' = TurnAcct(c, 0, e)
          [] k.tag = "go" /\ ~IsSend(c.op) ->
                \E e \in Stale :
                    LET m == Head(queues[q].msgs)
                        i == OldestHighest(arrivals[q])
                        o == [val |-> Len(m.body), prio |-> m.prio,
                              data |-> m.body, expect |-> arrivals[q][i],
                              pos |-> i]
                    IN  /\ ReceiveEffect(t, c, e)
                        /\ ret' = TurnRet(t, c, o.val, e, o)
                        /\ acct' = TurnAcct(c, o.val, e)

Call(t, op, h, prio, msg, buflen, arg) ==
    LET conv == Convert(op, arg)
        c == [st |-> "call", op |-> op, h |-> h, prio |-> prio, msg |-> msg,
              buflen |-> buflen, arg |-> arg, t0 |-> now,
              expires |-> IF op \in {"send", "receive"} THEN NoDeadline
                          ELSE Timed(conv.ts),
              n |-> 1, slept |-> FALSE, out |-> NoOut]
    IN  /\ th[t].st = "idle"
        /\ IF conv.ok
           THEN Attempt(t, c)
           ELSE /\ ret' = Err(t, [c EXCEPT !.n = 0], conv.kind, "none")
                /\ UNCHANGED <<th, queues, arrivals, acct>>
        /\ UNCHANGED <<build, os, mq, raw, now, names, fds>>

NoArg == Duration(0, 0)

Send(t, h, priority, msg) == Call(t, "send", h, priority, msg, 0, NoArg)
Receive(t, h, buflen) == Call(t, "receive", h, 0, <<>>, buflen, NoArg)
SendTimeout(t, h, priority, msg, timeout) ==
    Call(t, "send_timeout", h, priority, msg, 0, timeout)
SendDeadline(t, h, priority, msg, deadline) ==
    Call(t, "send_deadline", h, priority, msg, 0, deadline)
ReceiveTimeout(t, h, buflen, timeout) ==
    Call(t, "receive_timeout", h, 0, <<>>, buflen, timeout)
ReceiveDeadline(t, h, buflen, deadline) ==
    Call(t, "receive_deadline", h, 0, <<>>, buflen, deadline)

\* A signal interrupts a call asleep in the kernel: it returns -1 with EINTR
Eintr(t) ==
    /\ th[t].st = "blocked"
    /\ th[t].n <= MaxIntr
    /\ th' = [th EXCEPT ![t] = TurnTh(th[t], -1, "EINTR")]
    /\ ret' = TurnRet(t, th[t], -1, "EINTR", NoOut)
    /\ acct' = TurnAcct(th[t], -1, "EINTR")
    /\ UNCHANGED <<build, os, mq, raw, now, names, fds, queues, arrivals>>

\* The retry loop calls the kernel again
Reissue(t) ==
    /\ th[t].st = "retry"
    /\ Attempt(t, [th[t] EXCEPT !.st = "call", !.n = @ + 1,
                                !.expires = RetryDeadline(th[t])])
    /\ UNCHANGED <<build, os, mq, raw, now, names, fds>>

\* The deadline of a call asleep in the kernel passes: -1 with ETIMEDOUT
Expire(t) ==
    /\ th[t].st = "blocked"
    /\ th[t].expires.timed
    /\ Expired(th[t].expires.ts)
    /\ th' = [th EXCEPT ![t] = TurnTh(th[t], -1, "ETIMEDOUT")]
    /\ ret' = TurnRet(t, th[t], -1, "ETIMEDOUT", NoOut)
    /\ acct' = TurnAcct(th[t], -1, "ETIMEDOUT")
    /\ UNCHANGED <<build, os, mq, raw, now, names, fds, queues, arrivals>>

\* A call the kernel has completed while it slept returns from the kernel
Return(t) ==
    /\ th[t].st = "ready"
    /\ \E e \in Stale :
        /\ th' = [th EXCEPT ![t] = TurnTh(th[t], th[t].out.val, e)]
        /\ ret' = TurnRet(t, th[t], th[t].out.val, e, th[t].out)
        /\ acct' = TurnAcct(th[t], th[t].out.val, e)
    /\ UNCHANGED <<build, os, mq, raw, now, names, fds, queues, arrivals>>

\* The clock advances by half a second; a sleeper whose deadline has come is
\* woken by the kernel's timer before the clock moves on. A call records in
\* slept that time went by while it waited in the kernel.
Tick ==
    /\ now.tv_sec < MaxClock
    /\ \A t \in Threads :
          ~(th[t].st = "blocked" /\ th[t].expires.timed /\ Expired(th[t].expires.ts))
    /\ now' = IF now.tv_nsec = 0
              THEN new_timespec(now.tv_sec, NANO \div 2)
              ELSE new_timespec(now.tv_sec + 1, 0)
    /\ th' = [t \in Threads |->
                IF th[t].st = "blocked" THEN [th[t] EXCEPT !.slept = TRUE]
                ELSE th[t]]
    /\ ret' = NoRet
    /\ UNCHANGED <<build, os, mq, raw, names, fds, queues, arrivals, acct>>


----------------------------------------------------------------------------
(* The callers' arguments *)

MsgA == <<97>>
MsgFull == [i \in 1..MaxMsgLen |-> 98]
MsgTooLong == [i \in 1..(MaxMsgLen + 1) |-> 99]

\* (priority, message) pairs: two priorities, two lengths, an empty message,
\* a message longer than the queue takes and a priority above every ceiling
SendArgs == {<<0, MsgA>>, <<1, MsgA>>, <<1, MsgFull>>, <<0, <<>>>>,
             <<0, MsgTooLong>>, <<MaxPrioLinux + 1, MsgA>>}
TimedSendArgs == {<<0, MsgA>>, <<0, MsgTooLong>>}
Buflens == {MaxMsgLen - 1, MaxMsgLen}
Timeouts == {Duration(0, 0), Duration(0, NANO \div 2), Duration(1, 0),
             Duration(U64_MAX, NANO - 1)}
Deadlines == {SystemTime("Ok", 1, 0), SystemTime("Err", 0, NANO \div 2),
              SystemTime("Ok", U64_MAX, 0), SystemTime("Err", U64_MAX, 0)}

----------------------------------------------------------------------------
(* The queue of the send and receive tests: created with a capacity and a  *)
(* maximum message length, opened three times and unlinked; empty.         *)

\* The options each descriptor was opened with
Opened ==
    <<create(max_msg_len(capacity(readwrite, Capacity), MaxMsgLen)),
      nonblocking(readwrite),
      nonblocking(writeonly)>>

\* The descriptors whose options asked for non-blocking mode
OpenedNonblocking == {2, 3}

InitHandles ==
    /\ os \in Platforms
    /\ queues = [q \in QIds |->
                    IF q = 1
                    THEN NewQueue(Opened[1].capacity, Opened[1].max_msg_len)
                    ELSE NoQueue]
    /\ names = {}
    /\ fds = [f \in FDs |->
                IF f \in DOMAIN Opened THEN OpenFile(Opened[f].flags, 1, f)
                ELSE Closed]
    /\ mq = [v \in Values |-> NoMq]
    /\ raw = {}
    /\ th = [t \in Threads |-> Idle]
    /\ ret = NoRet
    /\ arrivals = [q \in QIds |-> <<>>]
    /\ acct = [q \in QIds |-> 0]

\* The tests start at some time of day, here the epoch, and run the release
\* build; the checked build differs only in deadline_to_realtime
InitQueue ==
    /\ InitHandles
    /\ build = "release"
    /\ now = new_timespec(0, 0)

Init == InitQueue /\ hist = <<>>

\* Another thread sends to and receives from the queue, without blocking
PeerSend == \E a \in TimedSendArgs : Send("peer", 2, a[1], a[2])
PeerReceive == Receive("peer", 2, MaxMsgLen)

\* Every call of the send and receive family, by one thread, as time passes
Next ==
    \/ \E h \in FDs, a \in TimedSendArgs :
          Send("main", h, a[1], a[2]) /\ UNCHANGED hist
    \/ \E h \in FDs, b \in Buflens :
          Receive("main", h, b) /\ UNCHANGED hist
    \/ \E h \in FDs, a \in TimedSendArgs, d \in Timeouts :
          SendTimeout("main", h, a[1], a[2], d) /\ UNCHANGED hist
    \/ \E h \in FDs, a \in TimedSendArgs, d \in Deadlines :
          SendDeadline("main", h, a[1], a[2], d) /\ UNCHANGED hist
    \/ \E h \in FDs, d \in Timeouts :
          ReceiveTimeout("main", h, MaxMsgLen, d) /\ UNCHANGED hist
    \/ \E h \in FDs, d \in Deadlines :
          ReceiveDeadline("main", h, MaxMsgLen, d) /\ UNCHANGED hist
    \/ PeerSend /\ UNCHANGED hist
    \/ PeerReceive /\ UNCHANGED hist
    \/ Eintr("main") /\ UNCHANGED hist
    \/ Reissue("main") /\ UNCHANGED hist
    \/ Expire("main") /\ UNCHANGED hist
    \/ Return("main") /\ UNCHANGED hist
    \/ Tick /\ UNCHANGED hist

Spec == Init /\ [][Next]_vars

\* Sends and receives of messages of several priorities and lengths, by one
\* thread that may block and another that does not; no call is timed.
NextOrder ==
    \/ \E h \in FDs, a \in SendArgs :
          Send("main", h, a[1], a[2]) /\ UNCHANGED hist
    \/ \E h \in FDs, b \in Buflens :
          Receive("main", h, b) /\ UNCHANGED hist
    \/ \E a \in SendArgs : Send("peer", 2, a[1], a[2]) /\ UNCHANGED hist
    \/ \E b \in Buflens : Receive("peer", 2, b) /\ UNCHANGED hist
    \/ Eintr("main") /\ UNCHANGED hist
    \/ Reissue("main") /\ UNCHANGED hist
    \/ Return("main") /\ UNCHANGED hist

SpecOrder == Init /\ [][NextOrder]_vars

----------------------------------------------------------------------------
(* Two threads wait to receive, each with its own timeout, and a third     *)
(* sends one message once both have begun; hist keeps what each call       *)
(* returned, when, and which threads were then in a call.                  *)

Waiters == {"short", "long"}
RaceTimeout == [short |-> Duration(0, NANO \div 2), long |-> Duration(1, NANO \div 2)]

RaceLog(t) ==
    hist' = IF ret'.t = t
            THEN [hist EXCEPT ![t] =
                    [ret |-> ret', at |-> now,
                     inCall |-> {x \in Threads : th[x].st # "idle"}]]
            ELSE hist

NotYet == [ret |-> NoRet, at |-> new_timespec(0, 0), inCall |-> {}]

InitRace == InitQueue /\ hist = [t \in Threads |-> NotYet]

NextRace ==
    \/ \E t \in Waiters :
          /\ hist[t] = NotYet /\ hist["main"] = NotYet
          /\ ReceiveTimeout(t, 1, MaxMsgLen, RaceTimeout[t])
          /\ RaceLog(t)
    \/ /\ hist["main"] = NotYet
       /\ \A t \in Waiters : hist[t] # NotYet \/ th[t].st # "idle"
       /\ Send("main", 2, 0, MsgA)
       /\ RaceLog("main")
    \/ \E t \in Waiters : Eintr(t) /\ RaceLog(t)
    \/ \E t \in Waiters : Reissue(t) /\ RaceLog(t)
    \/ \E t \in Waiters : Expire(t) /\ RaceLog(t)
    \/ \E t \in Waiters : Return(t) /\ RaceLog(t)
    \/ Tick /\ UNCHANGED hist

SpecRace == InitRace /\ [][NextRace]_vars

----------------------------------------------------------------------------
(* The timed calls at every time of day, with every timeout and deadline   *)
(* that Duration and SystemTime hold, in both build profiles; the clock    *)
(* stands still, and hist keeps whether the call has been made.            *)

\* Parts of a second: none, a half, and all but a nanosecond
Subsecs == {0, NANO \div 2, NANO - 1}

AllTimeouts == {Duration(s, n) : s \in 0..U64_MAX, n \in Subsecs}
AllDeadlines ==
    {SystemTime(r, s, n) : r \in {"Ok", "Err"}, s \in 0..U64_MAX, n \in Subsecs}

\* Times of day: the epoch, and the last seconds that time_t holds
ClockTimes == {0, TIME_MAX - 1, TIME_MAX}

InitTime ==
    /\ InitHandles
    /\ build \in Builds
    /\ \E s \in ClockTimes, n \in {0, NANO \div 2} : now = new_timespec(s, n)
    /\ hist = <<>>

\* The thread makes one timed call, which hist records
OneCall ==
    /\ hist = <<>>
    /\ hist' = <<"called">>
    /\ \/ \E h \in FDs, d \in AllTimeouts : SendTimeout("main", h, 0, MsgA, d)
       \/ \E h \in FDs, d \in AllDeadlines : SendDeadline("main", h, 0, MsgA, d)
       \/ \E h \in FDs, d \in AllTimeouts :
             ReceiveTimeout("main", h, MaxMsgLen, d)
       \/ \E h \in FDs, d \in AllDeadlines :
             ReceiveDeadline("main", h, MaxMsgLen, d)

\* on a queue that another thread fills and empties
NextTime ==
    \/ OneCall
    \/ PeerSend /\ UNCHANGED hist
    \/ PeerReceive /\ UNCHANGED hist
    \/ Return("main") /\ UNCHANGED hist

SpecTime == InitTime /\ [][NextTime]_vars

----------------------------------------------------------------------------
(* Names: a name is a sequence of bytes, of which "/" and "NUL" matter *)

\* CStr::from_bytes_with_nul: the bytes before the one NUL, which ends them
from_bytes_with_nul(bytes) ==
    IF /\ bytes # <<>>
       /\ bytes[Len(bytes)] = "NUL"
       /\ \A i \in 1..(Len(bytes) - 1) : bytes[i] # "NUL"
    THEN [ok |-> TRUE, kind |-> "Ok", cstr |-> SubSeq(bytes, 1, Len(bytes) - 1)]
    ELSE [ok |-> FALSE, kind |-> "InvalidInput", cstr |-> <<>>]

\* CString::new: the bytes, unless one of them is NUL
CString_new(bytes) ==
    IF \E i \in 1..Len(bytes) : bytes[i] = "NUL"
    THEN [ok |-> FALSE, kind |-> "InvalidInput", cstr |-> <<>>]
    ELSE [ok |-> TRUE, kind |-> "Ok", cstr |-> bytes]

first(name) == IF name = <<>> THEN "None" ELSE Head(name)
last(name) == IF name = <<>> THEN "None" ELSE name[Len(name)]

\* A conversion that leaves the NUL that ends the name where it is
name_from_bytes_unpopped(name) ==
    IF name # <<>> /\ name[1] = "/" /\ name[Len(name)] = "NUL"
    THEN LET r == from_bytes_with_nul(name)
         IN  IF r.ok THEN r ELSE [ok |-> FALSE, kind |-> "panic", cstr |-> <<>>]
    ELSE LET owned == (IF first(name) # "/" THEN <<"/">> ELSE <<>>) \o name
             r == CString_new(owned)
         IN  IF r.ok THEN r ELSE [ok |-> FALSE, kind |-> "panic", cstr |-> <<>>]

\* The result of name_from_bytes: [ok, kind, cstr], of kind "panic" when it
\* does not return
name_from_bytes(name) ==
    IF name # <<>> /\ name[1] = "/" /\ name[Len(name)] = "NUL"
    THEN LET r == from_bytes_with_nul(name)
         IN  IF r.ok THEN r ELSE [ok |-> FALSE, kind |-> "panic", cstr |-> <<>>]
    ELSE LET pushed == (IF first(name) # "/" THEN <<"/">> ELSE <<>>) \o name
             owned  == IF last(name) = "NUL"
                       THEN SubSeq(pushed, 1, Len(pushed) - 1) ELSE pushed
             r == CString_new(owned)
         IN  IF r.ok THEN r ELSE [ok |-> FALSE, kind |-> "panic", cstr |-> <<>>]

name_to_cstring(name) ==
    LET buf == (IF first(name) # "/" THEN <<"/">> ELSE <<>>) \o name
    IN  CString_new(buf)

\* The bytes before the first NUL, as a C function reads them
until_nul(bytes) ==
    IF \E i \in 1..Len(bytes) : bytes[i] = "NUL"
    THEN SubSeq(bytes, 1,
                (CHOOSE i \in 1..Len(bytes) :
                    /\ bytes[i] = "NUL"
                    /\ \A j \in 1..(i - 1) : bytes[j] # "NUL") - 1)
    ELSE bytes

\* A conversion that hands the kernel the name up to its first NUL
with_name_as_cstr_truncating(name) ==
    LET rest == IF first(name) = "/" THEN Tail(name) ELSE name
    IN  [ok |-> TRUE, kind |-> "Ok", cstr |-> <<"/">> \o until_nul(rest)]

\* A conversion that leaves a leading slash where it finds it
with_name_as_cstr_unstripped(name) ==
    IF Len(name) > CSTR_BUF_SIZE - 2
    THEN name_to_cstring(name)
    ELSE from_bytes_with_nul(<<"/">> \o name \o <<"NUL">>)

with_name_as_cstr(name) ==
    LET rest == IF first(name) = "/" THEN Tail(name) ELSE name
    IN  IF Len(rest) > CSTR_BUF_SIZE - 2
        THEN name_to_cstring(rest)
        ELSE from_bytes_with_nul(<<"/">> \o rest \o <<"NUL">>)

\* What the kernel says of a name before it looks the name up
NameError(cname, creating) ==
    IF cname = <<>>
    THEN IF EnforcesNameRules[os] \/ creating THEN "EINVAL" ELSE "ENOENT"
    ELSE IF ~EnforcesNameRules[os] THEN "none"
    ELSE IF Head(cname) # "/" THEN "EINVAL"
    ELSE IF Len(cname) = 1 THEN "ENOENT"
    ELSE IF \E i \in 2..Len(cname) : cname[i] = "/" THEN "EACCES"
    ELSE "none"

FreeFds == {f \in FDs : ~fds[f].open}
FreeQueues == {q \in QIds : ~queues[q].live}
Lowest(S) == CHOOSE x \in S : \A y \in S : x <= y
Named(cname) == {p \in names : p[1] = cname}
KernelErr(errno) == [tag |-> "err", errno |-> errno, fd |-> 0, q |-> 0]

mq_open(cname, flags, perm, attr) ==
    IF NameError(cname, "O_CREAT" \in flags) # "none"
    THEN KernelErr(NameError(cname, "O_CREAT" \in flags))
    ELSE IF Named(cname) # {}
    THEN IF {"O_CREAT", "O_EXCL"} \subseteq flags THEN KernelErr("EEXIST")
         ELSE IF FreeFds = {} THEN KernelErr("EMFILE")
         ELSE [tag |-> "open", errno |-> "none", fd |-> Lowest(FreeFds),
               q |-> (CHOOSE p \in Named(cname) : TRUE)[2]]
    ELSE IF "O_CREAT" \notin flags THEN KernelErr("ENOENT")
    ELSE IF attr.given /\ (attr.mq_maxmsg <= 0 \/ attr.mq_msgsize <= 0)
    THEN KernelErr("EINVAL")
    ELSE IF FreeFds = {} THEN KernelErr("EMFILE")
    ELSE IF FreeQueues = {} THEN KernelErr("ENOSPC")
    ELSE [tag |-> "create", errno |-> "none", fd |-> Lowest(FreeFds),
          q |-> Lowest(FreeQueues)]

mq_unlink(cname) ==
    IF NameError(cname, FALSE) # "none"
    THEN KernelErr(NameError(cname, FALSE))
    ELSE IF Named(cname) = {} THEN KernelErr("ENOENT")
    ELSE [tag |-> "unlink", errno |-> "none", fd |-> 0,
          q |-> (CHOOSE p \in Named(cname) : TRUE)[2]]

\* The queues as they are once those without a name or a descriptor are gone
Reap(qs, ns, ds) ==
    [q \in QIds |->
        IF \/ \E p \in ns : p[2] = q
           \/ \E f \in FDs : ds[f].open /\ ds[f].q = q
        THEN qs[q] ELSE NoQueue]

\* The name without the slash it may begin with
Canon(name) == IF first(name) = "/" THEN Tail(name) ELSE name

\* What a call that takes a name returns
NameRet(t, c, kind, errno, fd) ==
    [t |-> t, c |-> c, kind |-> kind, errno |-> errno, fd |-> fd]

\* The ways of opening that the callers use
OpenWith ==
    [create_new |-> create_new(readwrite),
     create     |-> create(readwrite),
     existing   |-> readwrite]
Creating == {"create_new", "create"}

\* The names created through the library and not since deleted
Created(c, kind) ==
    IF kind # "Ok" THEN hist
    ELSE IF c.op \in {"unlink", "unlink_c"}
    THEN {p \in hist : p[1] # Canon(c.name)}
    ELSE IF c.how \in Creating /\ ~c.existed
    THEN hist \cup {<<Canon(c.name), c.name>>}
    ELSE hist

\* usize and KernelLong, of LongBits bits: the greatest usize, and x as
\* KernelLong
USIZE_MAX == 2^LongBits - 1
AsKernelLong(x) == ((x + 2^(LongBits - 1)) % (2^LongBits)) - 2^(LongBits - 1)

\* An mq_attr passed only when both limits are set
open_c_attr_both(opts) ==
    IF opts.capacity # 0 /\ opts.max_msg_len # 0
    THEN [given |-> TRUE, mq_maxmsg |-> AsKernelLong(opts.capacity),
          mq_msgsize |-> AsKernelLong(opts.max_msg_len)]
    ELSE [given |-> FALSE, mq_maxmsg |-> 0, mq_msgsize |-> 0]

\* The mq_attr open_c passes
open_c_attr(opts) ==
    IF opts.capacity # 0 \/ opts.max_msg_len # 0
    THEN [given |-> TRUE, mq_maxmsg |-> AsKernelLong(opts.capacity),
          mq_msgsize |-> AsKernelLong(opts.max_msg_len)]
    ELSE [given |-> FALSE, mq_maxmsg |-> 0, mq_msgsize |-> 0]

open_c(t, c, opts, cname) ==
    LET attr == open_c_attr(opts)
        r    == mq_open(cname, opts.flags, opts.mode, attr)
    IN  /\ ret' = NameRet(t, c, IF r.tag = "err" THEN ErrorKind(r.errno) ELSE "Ok",
                          r.errno, r.fd)
        /\ hist' = Created(c, IF r.tag = "err" THEN ErrorKind(r.errno) ELSE "Ok")
        /\ CASE r.tag = "err" -> UNCHANGED <<queues, names, fds>>
             [] r.tag = "open" ->
                  /\ fds' = [fds EXCEPT ![r.fd] = Description(opts.flags, r.q)]
                  /\ UNCHANGED <<queues, names>>
             [] OTHER ->
                  /\ fds' = [fds EXCEPT ![r.fd] = Description(opts.flags, r.q)]
                  /\ names' = names \cup {<<cname, r.q>>}
                  /\ queues' = [queues EXCEPT ![r.q] =
                        IF attr.given
                        THEN NewQueue(attr.mq_maxmsg, attr.mq_msgsize)
                        ELSE NewQueue(DefaultCapacity[os], DefaultMaxMsgLen[os])]

\* A queue deleted at once, whoever has it open
unlink_c_purging(t, c, cname) ==
    LET r == mq_unlink(cname)
    IN  /\ ret' = NameRet(t, c, IF r.tag = "err" THEN ErrorKind(r.errno) ELSE "Ok",
                          r.errno, 0)
        /\ hist' = Created(c, IF r.tag = "err" THEN ErrorKind(r.errno) ELSE "Ok")
        /\ IF r.tag = "err" THEN UNCHANGED <<queues, names>>
           ELSE /\ names' = names \ Named(cname)
                /\ queues' = [queues EXCEPT ![r.q] = NoQueue]
        /\ UNCHANGED fds

unlink_c(t, c, cname) ==
    LET r == mq_unlink(cname)
    IN  /\ ret' = NameRet(t, c, IF r.tag = "err" THEN ErrorKind(r.errno) ELSE "Ok",
                          r.errno, 0)
        /\ hist' = Created(c, IF r.tag = "err" THEN ErrorKind(r.errno) ELSE "Ok")
        /\ IF r.tag = "err" THEN UNCHANGED <<queues, names>>
           ELSE /\ names' = names \ Named(cname)
                /\ queues' = Reap(queues, names \ Named(cname), fds)
        /\ UNCHANGED fds

\* The call as the properties see it: the C string made of the name (empty
\* when none was), whether the name was there, by what the library's earlier
\* results say, and whether a descriptor and a queue were free
NameCall(op, how, name, cname) ==
    [op |-> op, how |-> how, name |-> name, cname |-> cname,
     existed |-> \E p \in hist : p[1] = Canon(name),
     room |-> FreeFds # {} /\ FreeQueues # {}]

Open(t, how, name) ==
    LET n == with_name_as_cstr(name)
        c == NameCall("open", how, name, n.cstr)
    IN  /\ IF n.ok THEN open_c(t, c, OpenWith[how], n.cstr)
           ELSE /\ ret' = NameRet(t, c, n.kind, "none", 0)
                /\ UNCHANGED <<queues, names, fds, hist>>
        /\ UNCHANGED <<build, os, mq, raw, now, th, arrivals, acct>>

OpenC(t, how, cname) ==
    /\ open_c(t, NameCall("open_c", how, cname, cname), OpenWith[how], cname)
    /\ UNCHANGED <<build, os, mq, raw, now, th, arrivals, acct>>

Unlink(t, name) ==
    LET n == with_name_as_cstr(name)
        c == NameCall("unlink", "none", name, n.cstr)
    IN  /\ IF n.ok THEN unlink_c(t, c, n.cstr)
           ELSE /\ ret' = NameRet(t, c, n.kind, "none", 0)
                /\ UNCHANGED <<queues, names, fds, hist>>
        /\ UNCHANGED <<build, os, mq, raw, now, th, arrivals, acct>>

UnlinkC(t, cname) ==
    /\ unlink_c(t, NameCall("unlink_c", "none", cname, cname), cname)
    /\ UNCHANGED <<build, os, mq, raw, now, th, arrivals, acct>>

\* Dropping a PosixMq closes its descriptor
Drop(f) ==
    /\ fds[f].open
    /\ fds' = Numbered([fds EXCEPT ![f] = Closed])
    /\ queues' = Reap(queues, names, [fds EXCEPT ![f] = Closed])
    /\ ret' = NoRet
    /\ UNCHANGED <<build, os, mq, raw, now, names, th, arrivals, acct, hist>>

LongName == [i \in 1..(CSTR_BUF_SIZE - 1) |-> "b"]
NameArgs ==
    {<<"a">>, <<"/", "a">>, LongName, <<"/">> \o LongName,
     <<"a", "NUL">>, <<"/", "/", "a">>}
CNameArgs == {<<"/", "a">>, <<"/">> \o LongName}

InitNames ==
    /\ os \in Platforms
    /\ build = "release"
    /\ now = new_timespec(0, 0)
    /\ queues = [q \in QIds |-> NoQueue]
    /\ names = {}
    /\ fds = [f \in FDs |-> Closed]
    /\ mq = [v \in Values |-> NoMq]
    /\ raw = {}
    /\ th = [t \in Threads |-> Idle]
    /\ ret = NoRet
    /\ arrivals = [q \in QIds |-> <<>>]
    /\ acct = [q \in QIds |-> 0]
    /\ hist = {}

\* Queues are created, opened and deleted by name, and descriptors closed
NextNames ==
    \/ \E how \in DOMAIN OpenWith, name \in NameArgs : Open("main", how, name)
    \/ \E how \in DOMAIN OpenWith, cname \in CNameArgs : OpenC("main", how, cname)
    \/ \E name \in NameArgs : Unlink("main", name)
    \/ \E cname \in CNameArgs : UnlinkC("main", cname)
    \/ \E f \in FDs : Drop(f)

SpecNames == InitNames /\ [][NextNames]_vars

----------------------------------------------------------------------------
(* Names as bytes: short and long, with and without slashes and NULs, made *)
(* into C strings and given to the kernel; one queue and one descriptor at *)
(* a time.                                                                 *)

\* name_from_bytes, called for its result
NameFromBytes(t, name) ==
    LET r == name_from_bytes(name)
    IN  /\ ret' = NameRet(t, NameCall("name_from_bytes", "none", name, r.cstr),
                          r.kind, "none", 0)
        /\ UNCHANGED <<build, os, mq, raw, now, queues, names, fds, th, arrivals, acct, hist>>

Body(n) == [i \in 1..n |-> "b"]

\* A byte, the most bytes that fit the stack buffer with the slash and the
\* NUL, and one byte more
Bodies == {<<"a">>, Body(CSTR_BUF_SIZE - 2), Body(CSTR_BUF_SIZE - 1)}

\* The bytes with a NUL before them, in their middle and after them
Nuls(body) ==
    {<<"NUL">> \o body,
     SubSeq(body, 1, (Len(body) + 1) \div 2) \o <<"NUL">> \o body,
     body \o <<"NUL">>}

ByteNames ==
    {<<>>, <<"/">>, <<"/", "/">> \o Body(CSTR_BUF_SIZE - 3)}
    \cup {pre \o b : pre \in {<<>>, <<"/">>, <<"/", "/">>}, b \in Bodies}
    \cup {pre \o n : pre \in {<<>>, <<"/">>},
                      n \in Nuls(<<"a">>) \cup Nuls(Body(CSTR_BUF_SIZE - 1))}

\* The C strings of the names with one slash
ByteCNames == {<<"/">> \o b : b \in Bodies}

NoDescriptor == \A f \in FDs : ~fds[f].open

NextBytes ==
    \/ \E name \in ByteNames : NameFromBytes("main", name)
    \/ \E how \in {"create", "existing"}, name \in ByteNames :
          /\ NoDescriptor
          /\ how = "create" => names = {}
          /\ Open("main", how, name)
    \/ \E cname \in ByteCNames :
          NoDescriptor /\ OpenC("main", "existing", cname)
    \/ \E name \in ByteNames : Unlink("main", name)
    \/ \E cname \in ByteCNames : UnlinkC("main", cname)
    \/ \E f \in FDs : Drop(f)

SpecBytes == InitNames /\ [][NextBytes]_vars

----------------------------------------------------------------------------
(* Queues created with limits: none, one, both, and the greatest usize *)

Limits == {0, Capacity, USIZE_MAX}
LimitNames == {<<"a">>, <<"/", "b">>}

\* create() or create_new(), with capacity() and max_msg_len(), opened
OpenLimits(t, how, cap, len, name) ==
    LET n == with_name_as_cstr(name)
        opts == max_msg_len(capacity(OpenWith[how], cap), len)
        c == NameCall("open", how, name, n.cstr)
               @@ [capacity |-> cap, max_msg_len |-> len]
    IN  /\ IF n.ok THEN open_c(t, c, opts, n.cstr)
           ELSE /\ ret' = NameRet(t, c, n.kind, "none", 0)
                /\ UNCHANGED <<queues, names, fds, hist>>
        /\ UNCHANGED <<build, os, mq, raw, now, th, arrivals, acct>>

NextLimits ==
    \/ \E how \in Creating, cap \in Limits, len \in Limits, name \in LimitNames :
          OpenLimits("main", how, cap, len, name)
    \/ \E name \in LimitNames : Unlink("main", name)
    \/ \E f \in FDs : Drop(f)

SpecLimits == InitNames /\ [][NextLimits]_vars

----------------------------------------------------------------------------
(* PosixMq values and their descriptors: a value owns its descriptor and   *)
(* closes it when dropped, unless the descriptor is taken out of it first. *)

\* fcntl(mqd, F_DUPFD_CLOEXEC, 0): the lowest free descriptor, for the same
\* open description; NetBSD leaves close-on-exec off
fcntl_dupfd_cloexec(mqd) ==
    IF ~fds[mqd].open THEN [ret |-> -1, errno |-> "EBADF", desc |-> Closed]
    ELSE IF FreeFds = {} THEN [ret |-> -1, errno |-> "EMFILE", desc |-> Closed]
    ELSE [ret |-> Lowest(FreeFds), errno |-> "none",
          desc |-> [fds[mqd] EXCEPT !.cloexec = (os = "linux")]]

\* ioctl(fd, FIOCLEX) or ioctl(fd, FIONCLEX), on an open descriptor
set_cloexec(desc, cloexec) == [desc EXCEPT !.cloexec = cloexec]

\* A clone that trusts F_DUPFD_CLOEXEC on every platform
try_clone_trusting(mqd) ==
    LET r == fcntl_dupfd_cloexec(mqd)
    IN  IF r.ret = -1
        THEN [ok |-> FALSE, errno |-> r.errno, fd |-> 0, desc |-> Closed]
        ELSE [ok |-> TRUE, errno |-> "none", fd |-> r.ret, desc |-> r.desc]

\* The result of try_clone: the new descriptor and what the kernel holds
\* for it, or the error
try_clone(mqd) ==
    LET r == fcntl_dupfd_cloexec(mqd)
    IN  IF r.ret = -1
        THEN [ok |-> FALSE, errno |-> r.errno, fd |-> 0, desc |-> Closed]
        ELSE [ok |-> TRUE, errno |-> "none", fd |-> r.ret,
              desc |-> IF os = "netbsd" THEN set_cloexec(r.desc, TRUE) ELSE r.desc]

\* mq_close: the descriptors afterwards; closing what is not open fails
\* with EBADF and changes nothing
mq_close(mqd) ==
    IF fds[mqd].open THEN Numbered([fds EXCEPT ![mqd] = Closed]) ELSE fds

\* The fallback of attributes() is to say the descriptor would block
attributes_blocking(mqd) ==
    IF ~fds[mqd].open
    THEN [max_msg_len |-> 0, capacity |-> 0, current_messages |-> 0,
          nonblocking |-> FALSE]
    ELSE [max_msg_len |-> queues[fds[mqd].q].max_msg_len,
          capacity |-> queues[fds[mqd].q].capacity,
          current_messages |-> Len(queues[fds[mqd].q].msgs),
          nonblocking |-> fds[mqd].nonblocking]

\* attributes(): mq_getattr fails, with EBADF, when the descriptor is not
\* open
attributes(mqd) ==
    IF ~fds[mqd].open
    THEN [max_msg_len |-> 0, capacity |-> 0, current_messages |-> 0,
          nonblocking |-> TRUE]
    ELSE [max_msg_len |-> queues[fds[mqd].q].max_msg_len,
          capacity |-> queues[fds[mqd].q].capacity,
          current_messages |-> Len(queues[fds[mqd].q].msgs),
          nonblocking |-> fds[mqd].nonblocking]

is_nonblocking(mqd) == attributes(mqd).nonblocking

\* What a call on a PosixMq value returns, when it is not a send or receive
MqRet(op, v, kind, errno, val) ==
    [t |-> "main", c |-> [op |-> op, v |-> v, mqd |-> mq[v].mqd],
     kind |-> kind, errno |-> errno, val |-> val]

Held(v) == mq[v].mqd # NoMqd
MainIdle == th["main"].st = "idle"

\* The name and the options of the queue the values are opened on
MqName == <<"/", "a">>

\* History is kept of the queues there are: log, without what it holds of
\* the queues that qs says are gone
Live(qs, log, none) == [q \in QIds |-> IF qs[q].live THEN log[q] ELSE none]

\* OpenOptions::open into a value the caller does not hold yet
OpenMq(v) ==
    LET n == with_name_as_cstr(MqName)
    IN  /\ MainIdle /\ ~Held(v)
        /\ open_c("main", NameCall("open", "create", MqName, n.cstr),
                  Opened[1], n.cstr)
        /\ mq' = IF ret'.kind = "Ok"
                 THEN [mq EXCEPT ![v] = PosixMq(ret'.fd)] ELSE mq
        /\ arrivals' = Live(queues, arrivals, <<>>)
        /\ acct' = Live(queues, acct, 0)
        /\ UNCHANGED <<build, os, now, raw, th>>

TryClone(v, w) ==
    LET r == try_clone(mq[v].mqd)
    IN  /\ MainIdle /\ Held(v) /\ ~Held(w)
        /\ ret' = MqRet("try_clone", v,
                        IF r.ok THEN "Ok" ELSE ErrorKind(r.errno), r.errno, r.fd)
        /\ IF r.ok
           THEN /\ fds' = Numbered([fds EXCEPT ![r.fd] = r.desc])
                /\ mq' = [mq EXCEPT ![w] = PosixMq(r.fd)]
           ELSE UNCHANGED <<fds, mq>>
        /\ UNCHANGED <<build, os, now, queues, names, raw, th, arrivals, acct, hist>>

\* An into_raw_mqd that lets the value go out of scope
IntoRaw_dropping(v) ==
    /\ MainIdle /\ Held(v)
    /\ ret' = MqRet("into_raw", v, "Ok", "none", mq[v].mqd)
    /\ mq' = [mq EXCEPT ![v] = NoMq]
    /\ raw' = raw \cup {mq[v].mqd}
    /\ fds' = mq_close(mq[v].mqd)
    /\ queues' = Reap(queues, names, mq_close(mq[v].mqd))
    /\ arrivals' = Live(queues', arrivals, <<>>)
    /\ acct' = Live(queues', acct, 0)
    /\ UNCHANGED <<build, os, now, names, th, hist>>

\* into_raw_mqd and into_raw_fd: the value is forgotten, not dropped
IntoRaw(v) ==
    /\ MainIdle /\ Held(v)
    /\ ret' = MqRet("into_raw", v, "Ok", "none", mq[v].mqd)
    /\ mq' = [mq EXCEPT ![v] = NoMq]
    /\ raw' = raw \cup {mq[v].mqd}
    /\ UNCHANGED <<build, os, now, queues, names, fds, th, arrivals, acct, hist>>

\* from_raw_mqd and from_raw_fd, of a descriptor that into_raw gave
FromRaw(w, mqd) ==
    /\ MainIdle /\ ~Held(w) /\ mqd \in raw
    /\ ret' = [MqRet("from_raw", w, "Ok", "none", mqd) EXCEPT !.c.mqd = mqd]
    /\ mq' = [mq EXCEPT ![w] = PosixMq(mqd)]
    /\ raw' = raw \ {mqd}
    /\ UNCHANGED <<build, os, now, queues, names, fds, th, arrivals, acct, hist>>

\* from_raw_mqd of the descriptor as_raw_mqd shows, which the value keeps
FakeClone(v, w) ==
    /\ MainIdle /\ Held(v) /\ ~Held(w)
    /\ ret' = MqRet("fake_clone", v, "Ok", "none", mq[v].mqd)
    /\ mq' = [mq EXCEPT ![w] = PosixMq(mq[v].mqd)]
    /\ UNCHANGED <<build, os, now, queues, names, fds, raw, th, arrivals, acct, hist>>

\* Drop for PosixMq: mq_close, whatever it returns
DropMq(v) ==
    /\ MainIdle /\ Held(v)
    /\ ret' = MqRet("drop", v, "Ok", "none", mq[v].mqd)
    /\ mq' = [mq EXCEPT ![v] = NoMq]
    /\ fds' = mq_close(mq[v].mqd)
    /\ queues' = Reap(queues, names, mq_close(mq[v].mqd))
    /\ arrivals' = Live(queues', arrivals, <<>>)
    /\ acct' = Live(queues', acct, 0)
    /\ UNCHANGED <<build, os, now, names, raw, th, hist>>

Attributes(v) ==
    /\ MainIdle /\ Held(v)
    /\ ret' = MqRet("attributes", v, "Ok", "none", attributes(mq[v].mqd))
    /\ mq' = [mq EXCEPT ![v].failed = @ \/ ~fds[mq[v].mqd].open]
    /\ UNCHANGED <<build, os, now, queues, names, fds, raw, th, arrivals, acct, hist>>

IsNonblocking(v) ==
    /\ MainIdle /\ Held(v)
    /\ ret' = MqRet("is_nonblocking", v, "Ok", "none", is_nonblocking(mq[v].mqd))
    /\ mq' = [mq EXCEPT ![v].failed = @ \/ ~fds[mq[v].mqd].open]
    /\ UNCHANGED <<build, os, now, queues, names, fds, raw, th, arrivals, acct, hist>>

SendOn(v) == Held(v) /\ Send("main", mq[v].mqd, 0, MsgA)
ReceiveOn(v) == Held(v) /\ Receive("main", mq[v].mqd, MaxMsgLen)

\* The calls that keep to the contract of from_raw_mqd
NextOwned ==
    \/ \E v \in Values : OpenMq(v)
    \/ \E v, w \in Values : TryClone(v, w)
    \/ \E v \in Values : IntoRaw(v)
    \/ \E w \in Values, f \in FDs : FromRaw(w, f)
    \/ \E v \in Values : DropMq(v)
    \/ \E v \in Values : SendOn(v) /\ UNCHANGED hist
    \/ \E v \in Values : ReceiveOn(v) /\ UNCHANGED hist
    \/ MainIdle /\ Unlink("main", MqName)

SpecOwned == InitNames /\ [][NextOwned]_vars

\* Values made of descriptors that other values own, their attributes, and
\* sends and receives on them
NextRaw ==
    \/ \E v \in Values : OpenMq(v)
    \/ \E v, w \in Values : FakeClone(v, w)
    \/ \E v \in Values : DropMq(v)
    \/ \E v \in Values : Attributes(v)
    \/ \E v \in Values : IsNonblocking(v)
    \/ \E v \in Values : SendOn(v) /\ UNCHANGED hist
    \/ \E v \in Values : ReceiveOn(v) /\ UNCHANGED hist
    \/ MainIdle /\ Unlink("main", MqName)

SpecRaw == InitNames /\ [][NextRaw]_vars

----------------------------------------------------------------------------
(* Properties *)

Returned == ret.t # "none"
RetFd == fds[ret.c.h]
RetQueue == queues[RetFd.q]

\* The message of call c is one the queue accepts
ValidMsg(c) ==
    /\ Len(c.msg) <= queues[fds[c.h].q].max_msg_len
    /\ Len(c.msg) > 0 \/ AllowsEmpty[os]
    /\ c.prio <= MQ_PRIO_MAX[os]

(* C1: a receive that succeeds returns the priority, the exact length and  *)
(* the bytes of the message that, among those sent and not yet received,   *)
(* has the highest priority and, within that priority, was sent first.     *)
C1_PriorityThenFifo ==
    (Returned /\ ~IsSend(ret.c.op) /\ ret.kind = "Ok") =>
        /\ ret.prio = ret.expect.prio
        /\ ret.len = Len(ret.expect.body)
        /\ ret.data = ret.expect.body

\* A receive returns the second message sent, of priority 1, and leaves the
\* first, of priority 0; the two have different lengths.
C1_Witness ==
    /\ Returned /\ ~IsSend(ret.c.op) /\ ret.kind = "Ok"
    /\ ret.pos = 2 /\ ret.prio = 1 /\ ret.len = MaxMsgLen
    /\ Len(arrivals[1]) = 1 /\ arrivals[1][1] = Msg(0, MsgA)

(* C2: a receive whose buffer is shorter than the queue's maximum message  *)
(* length fails with an error of kind Other (EMSGSIZE when the descriptor  *)
(* can be read), leaves the queue as it was, and a receive with a buffer   *)
(* of the maximum length would then get the message at the head.           *)
C2_ShortBuffer ==
    (Returned /\ ~IsSend(ret.c.op) /\ ret.c.buflen < RetQueue.max_msg_len) =>
        /\ ret.kind = "Other"
        /\ Readable(RetFd) => ret.errno = "EMSGSIZE"
        /\ RetQueue.msgs = ret.before
        /\ (Readable(RetFd) /\ ret.before # <<>>) =>
              mq_timedreceive(ret.c.h, receive(RetQueue.max_msg_len).len,
                              NoDeadline).tag = "go"

\* A receive with a short buffer fails while a message is waiting
C2_Witness ==
    /\ Returned /\ ret.c.op = "receive"
    /\ ret.c.buflen < RetQueue.max_msg_len
    /\ ret.errno = "EMSGSIZE" /\ ret.before # <<>>
    /\ RetQueue.msgs = ret.before

(* C3: on a descriptor opened with nonblocking(), send and receive never   *)
(* wait: a send of an acceptable message to a full queue, and a receive    *)
(* into a long enough buffer from an empty queue, fail with WouldBlock on  *)
(* the first attempt and leave the queue as it was.                        *)
C3_NonblockingWouldBlock ==
    /\ \A t \in Threads :
          th[t].st = "blocked" => th[t].h \notin OpenedNonblocking
    /\ (Returned /\ ret.c.h \in OpenedNonblocking
            /\ ret.c.op \in {"send", "receive"}) =>
          /\ (ret.c.op = "send" /\ ValidMsg(ret.c) /\ Writable(RetFd)
                /\ Len(ret.before) = RetQueue.capacity) =>
                ret.kind = "WouldBlock" /\ ret.c.n = 1
                    /\ RetQueue.msgs = ret.before
          /\ (ret.c.op = "receive" /\ ret.c.buflen >= RetQueue.max_msg_len
                /\ Readable(RetFd) /\ ret.before = <<>>) =>
                ret.kind = "WouldBlock" /\ ret.c.n = 1
                    /\ RetQueue.msgs = ret.before

\* A send through a non-blocking descriptor finds the queue full
C3_Witness ==
    /\ Returned /\ ret.c.op = "send" /\ ret.c.h \in OpenedNonblocking
    /\ ret.kind = "WouldBlock"
    /\ Len(ret.before) = RetQueue.capacity

\* The name is one every platform takes: no NUL, and no slash but the first
PlainName(name) ==
    /\ Canon(name) # <<>>
    /\ \A i \in 1..Len(Canon(name)) : Canon(name)[i] \notin {"/", "NUL"}

(* C4: an open with create_new() of a name that an earlier create made     *)
(* and no unlink has since deleted fails with AlreadyExists, whether or    *)
(* not either call gave the name its leading slash; of a name never        *)
(* created, or deleted since, it succeeds.                                 *)
C4_CreateNewTwice ==
    (Returned /\ ret.c.op = "open" /\ ret.c.how = "create_new"
        /\ PlainName(ret.c.name)) =>
        /\ ret.c.existed => ret.kind = "AlreadyExists"
        /\ (~ret.c.existed /\ ret.c.room) => ret.kind = "Ok"

\* The queue was created as "a"; create_new() of "/a" finds it
C4_Witness ==
    /\ Returned /\ ret.c.op = "open" /\ ret.c.how = "create_new"
    /\ ret.c.name = <<"/", "a">> /\ ret.kind = "AlreadyExists"
    /\ <<(<<"a">>), (<<"a">>)>> \in hist

(* C5: no send or receive, timed or not, returns an error of kind          *)
(* Interrupted; a call the kernel interrupts is made again.                *)
C5_NeverInterrupted ==
    Returned => ret.kind # "Interrupted" /\ ret.errno # "EINTR"

\* A call that was interrupted and made again returns
C5_Witness ==
    Returned /\ ret.c.n >= 2 /\ ret.kind = "Ok"

TimeoutOps == {"send_timeout", "receive_timeout"}
DeadlineOps == {"send_deadline", "receive_deadline"}
TimedOps == TimeoutOps \cup DeadlineOps

\* a is not later than b
NotAfter(a, b) ==
    \/ a.tv_sec < b.tv_sec
    \/ a.tv_sec = b.tv_sec /\ a.tv_nsec <= b.tv_nsec

\* The absolute time the argument of call c stands for, by plain arithmetic
ExpectedDeadline(c) ==
    IF c.op \in TimeoutOps
    THEN LET ns == c.t0.tv_nsec + c.arg.nanos
         IN  new_timespec(c.t0.tv_sec + c.arg.secs + (ns \div NANO), ns % NANO)
    ELSE IF c.arg.res = "Ok" THEN new_timespec(c.arg.secs, c.arg.nanos)
    ELSE IF c.arg.nanos = 0 THEN new_timespec(0 - c.arg.secs, 0)
    ELSE new_timespec(0 - c.arg.secs - 1, NANO - c.arg.nanos)

(* C6: the absolute deadline of a timed call is the one computed from the  *)
(* caller's argument when the call began, in every attempt, however much   *)
(* time has passed since; a call times out only once that deadline is      *)
(* reached.                                                                *)
C6_DeadlineComputedOnce ==
    /\ \A t \in Threads :
          (th[t].st # "idle" /\ th[t].op \in TimedOps) =>
              th[t].expires = Timed(ExpectedDeadline(th[t]))
    /\ (Returned /\ ret.c.op \in TimedOps /\ ret.c.n >= 1) =>
          ret.c.expires = Timed(ExpectedDeadline(ret.c))
    /\ (Returned /\ ret.kind = "TimedOut") =>
          /\ ret.c.op \in TimedOps
          /\ NotAfter(ExpectedDeadline(ret.c), now)

\* A call with a timeout is interrupted after time has passed, is made
\* again, and times out
C6_Witness ==
    /\ Returned /\ ret.c.op \in TimeoutOps /\ ret.kind = "TimedOut"
    /\ ret.c.n >= 2 /\ ret.c.arg.secs = 1
    /\ ret.c.t0 = new_timespec(0, NANO \div 2)
    /\ now = ExpectedDeadline(ret.c)

\* The threads the kernel has completed the call of, that have not returned
Completed(q, sending) ==
    {t \in Threads : /\ th[t].st = "ready"
                     /\ fds[th[t].h].q = q
                     /\ IsSend(th[t].op) = sending}

(* C7: the calls that have returned Ok account for exactly the messages    *)
(* the kernel has taken and given, one each, however often a call was      *)
(* interrupted; a call that returns an error leaves the queue as it was.   *)
C7_ExactlyOnce ==
    /\ \A q \in QIds :
          acct[q] = Len(queues[q].msgs) + Cardinality(Completed(q, FALSE))
                        - Cardinality(Completed(q, TRUE))
    /\ (Returned /\ ret.kind # "Ok") => RetQueue.msgs = ret.before

\* A send that was interrupted and made again returns Ok with one message
\* in the queue
C7_Witness ==
    /\ Returned /\ IsSend(ret.c.op) /\ ret.kind = "Ok" /\ ret.c.n >= 2
    /\ RetQueue.msgs = <<Msg(ret.c.prio, ret.c.msg)>>
    /\ acct[RetFd.q] = 1

\* The call that returned had a descriptor and arguments the queue accepts
Usable ==
    IF IsSend(ret.c.op) THEN Writable(RetFd) /\ ValidMsg(ret.c)
    ELSE Readable(RetFd) /\ ret.c.buflen >= RetQueue.max_msg_len

\* The queue was full, for a send, or empty, for a receive, when the call
\* that returned took its last step
CannotProceed ==
    IF IsSend(ret.c.op) THEN Len(ret.before) = RetQueue.capacity
    ELSE ret.before = <<>>

\* The time argument of call c is one the library or the kernel rejects
TimeRejected(c) ==
    IF c.op \in TimeoutOps
    THEN c.arg.secs > TIME_MAX \/ ExpectedDeadline(c).tv_sec > TIME_MAX
    ELSE \/ ExpectedDeadline(c).tv_sec > TIME_MAX
         \/ ExpectedDeadline(c).tv_sec <= TIME_MIN
         \/ ExpectedDeadline(c).tv_sec < 0 /\ RejectsNegativeDeadline[os]

\* C8 as the specification states it: on a descriptor opened with
\* nonblocking() a timed call on a full or empty queue returns WouldBlock
\* whatever the deadline and never TimedOut; on a blocking descriptor a
\* timed call never returns WouldBlock.
C8_AsStated ==
    (Returned /\ ret.c.op \in TimedOps /\ Usable) =>
        IF ret.c.h \in OpenedNonblocking
        THEN ret.kind # "TimedOut" /\ (CannotProceed => ret.kind = "WouldBlock")
        ELSE ret.kind # "WouldBlock"

(* C8: on a descriptor opened with nonblocking() a timed call never waits  *)
(* and never returns TimedOut: when its time argument is rejected it       *)
(* returns InvalidInput, otherwise it returns on the first attempt, with   *)
(* WouldBlock exactly when the queue is full or empty. On a blocking       *)
(* descriptor a timed call never returns WouldBlock.                       *)
C8_NonblockingTimed ==
    /\ \A t \in Threads :
          th[t].st = "blocked" => th[t].h \notin OpenedNonblocking
    /\ (Returned /\ ret.c.op \in TimedOps /\ Usable) =>
          IF ret.c.h \in OpenedNonblocking
          THEN IF TimeRejected(ret.c)
               THEN ret.kind = "InvalidInput" /\ RetQueue.msgs = ret.before
               ELSE /\ ret.c.n = 1
                    /\ ret.kind = IF CannotProceed THEN "WouldBlock" ELSE "Ok"
          ELSE ret.kind # "WouldBlock"

\* A timed call on a non-blocking descriptor returns WouldBlock although
\* its deadline is still to come
C8_Witness ==
    /\ Returned /\ ret.c.op \in TimedOps /\ ret.c.h \in OpenedNonblocking
    /\ ret.kind = "WouldBlock"
    /\ ~NotAfter(ExpectedDeadline(ret.c), now)

\* The deadline of call c had passed when the call began
PassedAtCall(c) ==
    c.op \in DeadlineOps /\ NotAfter(ExpectedDeadline(c), c.t0)

\* C9 as the specification states it: with a deadline already passed, a
\* call on a blocking descriptor does not wait: it returns TimedOut when
\* the queue is empty or full and Ok when the operation can proceed.
C9_AsStated ==
    (Returned /\ PassedAtCall(ret.c) /\ Usable
        /\ ret.c.h \notin OpenedNonblocking) =>
        /\ ~ret.c.slept
        /\ ret.kind \in {"Ok", "TimedOut"}
        /\ ret.kind = "TimedOut" => CannotProceed

(* C9: with a deadline already passed, a call on a blocking descriptor     *)
(* spends no time waiting in the kernel; if the kernel accepts the         *)
(* deadline it returns Ok or TimedOut, TimedOut only when the queue is     *)
(* empty or full;                                                          *)
(* a deadline before the epoch, where the kernel rejects those, gives      *)
(* InvalidInput and leaves the queue as it was.                            *)
C9_PassedDeadline ==
    (Returned /\ PassedAtCall(ret.c) /\ Usable
        /\ ret.c.h \notin OpenedNonblocking) =>
        /\ ~ret.c.slept
        /\ IF TimeRejected(ret.c)
           THEN ret.kind = "InvalidInput" /\ RetQueue.msgs = ret.before
           ELSE /\ ret.kind \in {"Ok", "TimedOut"}
                /\ ret.kind = "TimedOut" => CannotProceed

\* A send with a deadline already passed puts its message in the queue
C9_Witness ==
    /\ Returned /\ ret.c.op = "send_deadline" /\ PassedAtCall(ret.c)
    /\ ret.c.h \notin OpenedNonblocking
    /\ ret.kind = "Ok" /\ ret.c.n = 1
    /\ Len(RetQueue.msgs) = Len(ret.before) + 1

\* a is earlier than b
Before(a, b) == ~NotAfter(b, a)

\* Both waiters and the sender have returned; the shorter wait began before
\* the message was sent and the longer was under way then; the message
\* was sent after the shorter deadline and before the longer
RaceRun ==
    /\ \A t \in Waiters \cup {"main"} : hist[t] # NotYet
    /\ hist["main"].ret.kind = "Ok"
    /\ Before(hist["short"].ret.c.t0, hist["main"].at)
    /\ "long" \in hist["main"].inCall
    /\ Before(ExpectedDeadline(hist["short"].ret.c), hist["main"].at)
    /\ Before(hist["main"].at, ExpectedDeadline(hist["long"].ret.c))

RaceOutcome ==
    /\ hist["short"].ret.kind = "TimedOut"
    /\ NotAfter(ExpectedDeadline(hist["short"].ret.c), hist["short"].at)
    /\ "short" \notin hist["main"].inCall
    /\ hist["long"].ret.kind = "Ok"
    /\ hist["long"].ret.data = hist["main"].ret.c.msg

Unrepresentable(deadline) ==
    IF deadline.res = "Ok" THEN deadline.secs > TIME_MAX
    ELSE \/ deadline.secs > TIME_MAX + 1
         \/ deadline.secs = TIME_MAX + 1 /\ deadline.nanos > 0

\* C11 as the specification states it: a deadline that does not fit is
\* saturated and the kernel call is made with it.
C11_AsStated ==
    (Returned /\ ret.c.op \in DeadlineOps /\ Unrepresentable(ret.c.arg)) =>
        /\ ret.c.n >= 1
        /\ ret.c.expires.ts = deadline_to_realtime(ret.c.arg).ts

(* C11: for a point in time whose whole seconds do not fit time_t the      *)
(* conversion saturates, to the maximum or, before the epoch, to one more  *)
(* than the minimum, and reports failure; send_deadline and                *)
(* receive_deadline then return InvalidInput, make no kernel call and      *)
(* leave the queue as it was.                                              *)
C11_UnrepresentableDeadline ==
    (Returned /\ ret.c.op \in DeadlineOps /\ Unrepresentable(ret.c.arg)) =>
        /\ ~deadline_to_realtime(ret.c.arg).ok
        /\ deadline_to_realtime(ret.c.arg).ts =
              IF ret.c.arg.res = "Ok" THEN new_timespec(TIME_MAX, 0)
              ELSE new_timespec(TIME_MIN + 1, 0)
        /\ ret.kind = "InvalidInput" /\ ret.errno = "none"
        /\ ret.c.n = 0
        /\ RetQueue.msgs = ret.before

\* A send that the queue has room for is refused for its far deadline
C11_Witness ==
    /\ Returned /\ ret.c.op = "send_deadline"
    /\ ret.c.arg = SystemTime("Ok", U64_MAX, 0)
    /\ ret.kind = "InvalidInput"
    /\ Writable(RetFd) /\ ValidMsg(ret.c)
    /\ Len(RetQueue.msgs) < RetQueue.capacity

\* The timeout of call c, added to the time the call began, is more than
\* time_t holds, or its seconds alone are
TimeoutTooLong(c) ==
    \/ c.arg.secs > TIME_MAX
    \/ ExpectedDeadline(c).tv_sec > TIME_MAX

(* C12: send_timeout and receive_timeout return InvalidInput, and make no   *)
(* kernel call, for every timeout whose seconds are more than time_t holds  *)
(* or whose sum with the current time is, the timeout whose wrapped sum     *)
(* comes back to the current time included; no thread is ever inside a      *)
(* kernel call with such a timeout.                                         *)
C12_BadTimeouts ==
    /\ (Returned /\ ret.c.op \in TimeoutOps /\ TimeoutTooLong(ret.c)) =>
          /\ ret.kind = "InvalidInput" /\ ret.errno = "none"
          /\ ret.c.n = 0
          /\ RetQueue.msgs = ret.before
    /\ \A t \in Threads :
          (th[t].st # "idle" /\ th[t].op \in TimeoutOps) => ~TimeoutTooLong(th[t])

\* The longest timeout there is, at a time of day that makes the wrapped sum
\* come back to the very second of the call, on a queue with room
C12_Witness ==
    /\ Returned /\ ret.c.op = "send_timeout"
    /\ ret.c.arg = Duration(U64_MAX, NANO - 1)
    /\ ret.c.t0.tv_nsec = NANO \div 2
    /\ ret.kind = "InvalidInput"
    /\ Writable(RetFd) /\ ValidMsg(ret.c)
    /\ Len(RetQueue.msgs) < RetQueue.capacity

\* The deadline is a point before the epoch, no further from it than the
\* least time_t
PreEpoch(deadline) ==
    /\ deadline.res = "Err"
    /\ \/ deadline.secs <= TIME_MAX
       \/ deadline.secs = TIME_MAX + 1 /\ deadline.nanos = 0

(* C13 as the specification states it: for every point before the epoch,   *)
(* as far from it as the least time_t, deadline_to_realtime returns the     *)
(* timespec of the same instant, with nanoseconds of 0 to 999999999, that   *)
(* the kernel call is then made with, and computes its seconds without      *)
(* integer overflow, so that no build stops there.                          *)
C13_AsStated ==
    (Returned /\ ret.c.op \in DeadlineOps /\ PreEpoch(ret.c.arg)) =>
        /\ ret.kind # "panic"
        /\ ret.c.n >= 1
        /\ ret.c.expires.ts = ExpectedDeadline(ret.c)
        /\ ret.c.expires.ts.tv_nsec \in 0..(NANO - 1)
        /\ ret.c.expires.ts.tv_sec \in TIME_MIN..TIME_MAX

\* C13, the point where it fails: the deadline exactly as far before the
\* epoch as the least time_t, in a build that checks for overflow
C13_Witness ==
    /\ Returned /\ ret.c.op = "receive_deadline"
    /\ ret.c.arg = SystemTime("Err", TIME_MAX + 1, 0)
    /\ build = "debug"
    /\ ret.kind = "panic"

\* C13 holds of every other point: those nearer the epoch than the least
\* time_t, in both builds, and the least time_t itself where overflow wraps
C13_ElsewhereHolds ==
    (/\ Returned /\ ret.c.op \in DeadlineOps /\ PreEpoch(ret.c.arg)
     /\ ~(build = "debug" /\ ret.c.arg.secs = TIME_MAX + 1)) =>
        /\ ret.kind # "panic"
        /\ ret.c.n >= 1
        /\ ret.c.expires.ts = ExpectedDeadline(ret.c)
        /\ ret.c.expires.ts.tv_nsec \in 0..(NANO - 1)
        /\ ret.c.expires.ts.tv_sec \in TIME_MIN..TIME_MAX

NulFree(name) == \A i \in 1..Len(name) : name[i] # "NUL"
Front(name) == SubSeq(name, 1, Len(name) - 1)
TrailingNul(name) == name # <<>> /\ last(name) = "NUL" /\ NulFree(Front(name))
InteriorNul(name) == \E i \in 1..(Len(name) - 1) : name[i] = "NUL"

\* The library returned without giving the kernel a name
NoKernelCall == ret.errno = "none" /\ ret.kind # "Ok"

\* C14 as the specification states it: a name that ends in NUL is made
\* into the same C string as the name without the NUL, by name_from_bytes
\* and by open() and unlink() alike
C14_AsStated ==
    (/\ Returned /\ ret.c.op \in {"name_from_bytes", "open", "unlink"}
     /\ TrailingNul(ret.c.name)) =>
        LET other == IF ret.c.op = "name_from_bytes"
                     THEN name_from_bytes(Front(ret.c.name))
                     ELSE with_name_as_cstr(Front(ret.c.name))
        IN  /\ ~NoKernelCall
            /\ other.ok
            /\ ret.c.cname = other.cstr

(* C14: name_from_bytes makes the same C string of a name without NUL and  *)
(* of that name with one NUL after it; open() and unlink() take the name   *)
(* without the NUL to the kernel, and return InvalidInput for the name     *)
(* with it, without a kernel call.                                         *)
C14_TrailingNul ==
    /\ (Returned /\ ret.c.op = "name_from_bytes" /\ TrailingNul(ret.c.name)) =>
          /\ ret.kind = "Ok"
          /\ name_from_bytes(Front(ret.c.name)).ok
          /\ ret.c.cname = name_from_bytes(Front(ret.c.name)).cstr
    /\ (Returned /\ ret.c.op = "name_from_bytes" /\ NulFree(ret.c.name)) =>
          /\ ret.kind = "Ok"
          /\ name_from_bytes(ret.c.name \o <<"NUL">>).ok
          /\ ret.c.cname = name_from_bytes(ret.c.name \o <<"NUL">>).cstr
    /\ (Returned /\ ret.c.op \in {"open", "unlink"} /\ TrailingNul(ret.c.name)) =>
          /\ ret.kind = "InvalidInput" /\ NoKernelCall
          /\ ret.c.cname = <<>>
          /\ with_name_as_cstr(Front(ret.c.name)).ok

\* name_from_bytes has made "/a" of "a" and a NUL
C14_Witness ==
    /\ Returned /\ ret.c.op = "name_from_bytes"
    /\ ret.c.name = <<"a", "NUL">>
    /\ ret.kind = "Ok" /\ ret.c.cname = <<"/", "a">>

(* C15: open(), create() and unlink() of a name with a NUL in it, wherever *)
(* the NUL is and whatever the length of the name, return InvalidInput,    *)
(* give the kernel no name, not a shortened one either, and leave the      *)
(* queues, names and descriptors as they were; name_from_bytes does not    *)
(* return for a name with a NUL before its last byte, but panics.          *)
C15_NulRejected ==
    [][(ret'.t # "none" /\ ~NulFree(ret'.c.name)) =>
          IF ret'.c.op = "name_from_bytes"
          THEN InteriorNul(ret'.c.name) => ret'.kind = "panic"
          ELSE /\ ret'.c.op \in {"open", "unlink"}
               /\ ret'.kind = "InvalidInput" /\ ret'.errno = "none"
               /\ ret'.c.cname = <<>>
               /\ UNCHANGED <<queues, names, fds>>]_vars

\* A long name with a NUL in its middle, refused where it would have been
\* created
C15_Witness ==
    /\ Returned /\ ret.c.op = "open" /\ ret.c.how = "create"
    /\ Len(ret.c.name) > CSTR_BUF_SIZE
    /\ \E i \in 2..(Len(ret.c.name) - 1) : ret.c.name[i] = "NUL"
    /\ ret.kind = "InvalidInput"
    /\ names = {} /\ ret.c.room

\* The name the kernel is to be given for a name without NUL
KernelName(name) == IF first(name) = "/" THEN name ELSE <<"/">> \o name

\* C16 as the specification states it: open() and unlink() of a name
\* without NUL, of any length, give the kernel the name itself when it
\* begins with a slash and the name after a slash when it does not, and a
\* queue that is created has that name
C16_AsStated ==
    (Returned /\ ret.c.op \in {"open", "unlink"} /\ NulFree(ret.c.name)) =>
        /\ ~NoKernelCall
        /\ ret.c.cname = KernelName(ret.c.name)
        /\ (ret.c.op = "open" /\ ret.kind = "Ok") =>
              <<KernelName(ret.c.name), fds[ret.fd].q>> \in names

\* C16, the point where it fails: a name of two slashes and more bytes than
\* the stack buffer takes has created a queue of that name less a slash
C16_Witness ==
    /\ Returned /\ ret.c.op = "open" /\ ret.c.how = "create"
    /\ ret.c.name = <<"/", "/">> \o Body(CSTR_BUF_SIZE - 2)
    /\ ret.kind = "Ok"
    /\ <<(<<"/">> \o Body(CSTR_BUF_SIZE - 2)), fds[ret.fd].q>> \in names

\* C16 holds of every other name: those that do not begin with two slashes
\* and those short enough for the stack buffer
C16_ElsewhereHolds ==
    (/\ Returned /\ ret.c.op \in {"open", "unlink"} /\ NulFree(ret.c.name)
     /\ ~(/\ Len(ret.c.name) > CSTR_BUF_SIZE - 1
          /\ SubSeq(ret.c.name, 1, 2) = <<"/", "/">>)) =>
        /\ ~NoKernelCall
        /\ ret.c.cname = KernelName(ret.c.name)
        /\ (ret.c.op = "open" /\ ret.kind = "Ok") =>
              <<KernelName(ret.c.name), fds[ret.fd].q>> \in names

\* The values that hold descriptor f, and how many hold it, the caller's
\* raw descriptors included
Owners(f) == {v \in Values : mq[v].mqd = f}
Holders(f) == Cardinality(Owners(f)) + (IF f \in raw THEN 1 ELSE 0)

(* C17: whatever values are opened, cloned, turned into raw descriptors,   *)
(* made again of those and dropped, a descriptor is open exactly while one *)
(* value or the caller holds it, and never two; a descriptor is closed by  *)
(* the drop of the value that holds it, which finds it open, and by no     *)
(* other step; into_raw gives the descriptor out open.                     *)
C17_ClosedOnce ==
    /\ [](\A f \in FDs : Holders(f) = IF fds[f].open THEN 1 ELSE 0)
    /\ []((Returned /\ ret.c.op = "into_raw") =>
             fds[ret.val].open /\ ret.val \in raw)
    /\ [][\A f \in FDs :
             (fds[f].open /\ ~fds'[f].open) <=>
             (ret'.t # "none" /\ ret'.c.op = "drop" /\ ret'.c.mqd = f)]_vars

\* A value has been dropped while another is held and the caller has a raw
\* descriptor
C17_Witness ==
    /\ Returned /\ ret.c.op = "drop"
    /\ ~fds[ret.c.mqd].open
    /\ \E f \in raw : fds[f].open
    /\ \E v \in Values : Held(v) /\ fds[mq[v].mqd].open

\* Descriptor f is as it was, but for the number its description goes by
Untouched(f) == [fds'[f] EXCEPT !.file = 0] = [fds[f] EXCEPT !.file = 0]

(* C18: try_clone gives a value with another descriptor, open on the same  *)
(* queue and with close-on-exec set, and leaves the first open; the drop   *)
(* of a value closes no descriptor but its own and leaves the queue of     *)
(* every other as it is, and no send or receive on a value finds its       *)
(* descriptor closed.                                                      *)
C18_Clone ==
    /\ []((Returned /\ ret.c.op = "try_clone" /\ ret.kind = "Ok") =>
             /\ ret.val # ret.c.mqd
             /\ fds[ret.val].open /\ fds[ret.c.mqd].open
             /\ fds[ret.val].q = fds[ret.c.mqd].q
             /\ fds[ret.val].cloexec
             /\ \E w \in Values : w # ret.c.v /\ mq[w].mqd = ret.val)
    /\ []((Returned /\ ret.c.op \in {"send", "receive"}) => ret.errno # "EBADF")
    /\ [][(ret'.t # "none" /\ ret'.c.op = "drop") =>
             \A f \in FDs \ {ret'.c.mqd} :
                /\ Untouched(f)
                /\ fds[f].open => queues'[fds[f].q] = queues[fds[f].q]]_vars

\* A clone made where the kernel does not set close-on-exec itself
C18_Witness ==
    /\ Returned /\ ret.c.op = "try_clone" /\ ret.kind = "Ok"
    /\ os = "netbsd"
    /\ fds[ret.val].cloexec /\ fds[ret.val].q = fds[ret.c.mqd].q

CreatesWithLimits ==
    /\ Returned /\ ret.c.op = "open"
    /\ "capacity" \in DOMAIN ret.c
    /\ ~ret.c.existed

BadLimit(x) == x = 0 \/ x = USIZE_MAX

(* C20: an open that creates a queue gives the kernel the limits of the    *)
(* options when capacity or max_msg_len is not zero, and the queue has     *)
(* them; with both zero the queue has the defaults of the platform; with   *)
(* one of them zero and not the other, or either the greatest usize, the   *)
(* open returns InvalidInput for the kernel's EINVAL and no queue of the   *)
(* name is there afterwards.                                               *)
C20_Limits ==
    CreatesWithLimits =>
        LET cap == ret.c.capacity
            len == ret.c.max_msg_len
        IN  IF cap = 0 /\ len = 0
            THEN /\ ret.c.room => ret.kind = "Ok"
                 /\ ret.kind = "Ok" =>
                       /\ queues[fds[ret.fd].q].capacity = DefaultCapacity[os]
                       /\ queues[fds[ret.fd].q].max_msg_len = DefaultMaxMsgLen[os]
            ELSE IF BadLimit(cap) \/ BadLimit(len)
            THEN /\ ret.kind = "InvalidInput" /\ ret.errno = "EINVAL"
                 /\ Named(ret.c.cname) = {}
            ELSE /\ ret.c.room => ret.kind = "Ok"
                 /\ ret.kind = "Ok" =>
                       /\ queues[fds[ret.fd].q].capacity = cap
                       /\ queues[fds[ret.fd].q].max_msg_len = len

\* A capacity of the greatest usize with a message length the kernel takes,
\* refused where there was room for the queue
C20_Witness ==
    /\ CreatesWithLimits
    /\ ret.c.capacity = USIZE_MAX /\ ret.c.max_msg_len = Capacity
    /\ ret.kind = "InvalidInput" /\ ret.c.room

----------------------------------------------------------------------------
(* Iterators over a queue: iter() and into_iter() keep the handle and the  *)
(* queue's maximum message length as it was when they were called; next()  *)
(* receives into a fresh buffer of that length. In this part hist holds    *)
(* the caller's iterators and what each of them has returned so far.       *)

Iters == {1, 2}

\* What iter() and into_iter() build from a handle
into_iter(mqd) == [mq |-> mqd, max_msg_len |-> attributes(mqd).max_msg_len]

\* vec![0; n]
Zeros(n) == [i \in 1..n |-> 0]

\* Vec::truncate
truncate(buf, len) == IF len < Len(buf) THEN SubSeq(buf, 1, len) ELSE buf

\* The buffer of next() after a receive that returned r
Filled(it, r) ==
    [i \in 1..it.max_msg_len |-> IF i <= Len(r.data) THEN r.data[i] ELSE 0]

\* A next() that takes every error of receive for the end of the queue
next_ending(it, r) ==
    IF r.kind = "Ok"
    THEN [tag |-> "Some", priority |-> r.prio, bytes |-> truncate(Filled(it, r), r.len)]
    ELSE [tag |-> "None", priority |-> 0, bytes |-> <<>>]

\* A next() that returns the whole buffer
next_whole(it, r) ==
    CASE r.kind = "WouldBlock" -> [tag |-> "None", priority |-> 0, bytes |-> <<>>]
      [] r.kind = "Ok" ->
            [tag |-> "Some", priority |-> r.prio, bytes |-> Filled(it, r)]
      [] OTHER -> [tag |-> "panic", priority |-> 0, bytes |-> <<>>]

\* What next() makes of the result r of its receive
next(it, r) ==
    CASE r.kind = "WouldBlock" -> [tag |-> "None", priority |-> 0, bytes |-> <<>>]
      [] r.kind = "Ok" ->
            [tag |-> "Some", priority |-> r.prio,
             bytes |-> truncate(Filled(it, r), r.len)]
      [] OTHER -> [tag |-> "panic", priority |-> 0, bytes |-> <<>>]

\* An iterator the caller holds: it, whether a next() on it is under way or
\* was the last to return, what its last next() returned, whether a next()
\* on it has returned None and whether one has returned an element after that.
Held_iter(it) ==
    [live |-> TRUE, it |-> it, at |-> "idle", item |-> "none",
     ended |-> FALSE, resumed |-> FALSE]

NoIter ==
    [Held_iter([mq |-> NoMqd, max_msg_len |-> 0]) EXCEPT !.live = FALSE]

\* A panic of next() has ended the caller
Panicked == \E i \in Iters : hist[i].item = "panic"

\* next() on iterator i returns when its receive returns
IterLog(i) ==
    hist' = IF ret'.t = "main"
            THEN LET item == next(hist[i].it, ret') IN
                 [j \in Iters |->
                    IF j = i
                    THEN [hist[i] EXCEPT
                            !.at = "returned", !.item = item.tag,
                            !.ended = @ \/ item.tag = "None",
                            !.resumed = @ \/ (hist[i].ended /\ item.tag = "Some")]
                    ELSE [hist[j] EXCEPT !.at = "idle"]]
            ELSE [hist EXCEPT ![i].at = "calling"]

\* mq.iter() or mq.into_iter(), kept as iterator i
IntoIter(i, h) ==
    /\ th["main"].st = "idle"
    /\ ~Panicked
    /\ hist' = [hist EXCEPT ![i] = Held_iter(into_iter(h))]
    /\ ret' = NoRet
    /\ UNCHANGED <<build, os, now, queues, names, fds, mq, raw, th, arrivals, acct>>

\* A next() that remembers that it has returned None and receives no more
IterNext_fused(i) ==
    /\ hist[i].live
    /\ ~Panicked
    /\ IF hist[i].ended
       THEN /\ th["main"].st = "idle"
            /\ ret' = Err("main", [op |-> "receive", h |-> hist[i].it.mq,
                                   buflen |-> hist[i].it.max_msg_len],
                          "WouldBlock", "EAGAIN")
            /\ hist' = [j \in Iters |->
                          [hist[j] EXCEPT !.at = IF j = i THEN "returned" ELSE "idle",
                                          !.item = IF j = i THEN "None" ELSE @]]
            /\ UNCHANGED <<build, os, now, queues, names, fds, mq, raw, th,
                           arrivals, acct>>
       ELSE /\ Receive("main", hist[i].it.mq, hist[i].it.max_msg_len)
            /\ IterLog(i)

\* next() on iterator i
IterNext(i) ==
    /\ hist[i].live
    /\ ~Panicked
    /\ Receive("main", hist[i].it.mq, hist[i].it.max_msg_len)
    /\ IterLog(i)

\* What the other thread sends: two priorities and two lengths
IterSendArgs == {<<0, MsgA>>, <<1, MsgFull>>}

InitIter == InitQueue /\ hist = [i \in Iters |-> NoIter]

\* One thread makes iterators and calls next() on them while another sends
NextIter ==
    \/ \E i \in Iters, h \in FDs : IntoIter(i, h)
    \/ \E i \in Iters : IterNext(i)
    \/ \E i \in Iters : hist[i].at = "calling" /\ Eintr("main") /\ IterLog(i)
    \/ \E i \in Iters : hist[i].at = "calling" /\ Reissue("main") /\ IterLog(i)
    \/ \E i \in Iters : hist[i].at = "calling" /\ Return("main") /\ IterLog(i)
    \/ \E a \in IterSendArgs : Send("peer", 2, a[1], a[2]) /\ UNCHANGED hist

SpecIter == InitIter /\ [][NextIter]_vars

\* The iterator whose next() has just returned
IterReturned(i) ==
    /\ Returned /\ ret.t = "main"
    /\ hist[i].live /\ hist[i].at = "returned"

(* C21: once a next() on an iterator has returned None, no later next() on *)
(* the same iterator returns an element, whatever is sent in the meantime. *)
C21_AsStated == \A i \in Iters : ~hist[i].resumed

\* C21, as the code has it: next() keeps nothing from one call to the next,
\* so a next() on an iterator that has returned None receives again: it
\* returns None when the queue is still empty and the next message, as an
\* element, when one has been sent since.
C21_EachNextReceives ==
    \A i \in Iters :
        (IterReturned(i) /\ hist[i].ended /\ ret.kind \in {"Ok", "WouldBlock"}) =>
            /\ ret.before = <<>> => hist[i].item = "None"
            /\ ret.before # <<>> =>
                  /\ hist[i].item = "Some" /\ hist[i].resumed
                  /\ RetQueue.msgs = Tail(ret.before)

\* next() on an iterator that had returned None returns the message that
\* another thread sent afterwards
C21_Witness ==
    \E i \in Iters :
        /\ IterReturned(i) /\ hist[i].resumed
        /\ ret.kind = "Ok" /\ ret.data = MsgA
        /\ hist[i].item = "Some"

(* C22: next() returns None only when its receive reported would-block;    *)
(* when the receive reported any other error, such as the bad descriptor   *)
(* of a write-only handle, next() panics and does not return None.         *)
C22_NoneOnlyWouldBlock ==
    \A i \in Iters :
        IterReturned(i) =>
            /\ hist[i].item = "None" <=> ret.kind = "WouldBlock"
            /\ ret.kind \notin {"Ok", "WouldBlock"} => hist[i].item = "panic"
            /\ ret.kind = "Ok" <=> hist[i].item = "Some"

\* next() on an iterator over the write-only handle panics on EBADF
C22_Witness ==
    \E i \in Iters :
        /\ IterReturned(i)
        /\ hist[i].it.mq = 3 /\ ~Readable(fds[3])
        /\ ret.errno = "EBADF" /\ hist[i].item = "panic"

----------------------------------------------------------------------------
(* Draining a queue through an iterator while nobody sends: messages are   *)
(* sent, then an iterator is made of a non-blocking handle and next() is   *)
(* called until it returns None or panics. Here hist holds the iterator,   *)
(* the messages that were queued when it was made, in the order they were  *)
(* sent, and the elements it has returned.                                 *)

NotDraining ==
    [phase |-> "filling", it |-> [mq |-> NoMqd, max_msg_len |-> 0],
     snap |-> <<>>, got |-> <<>>]

\* Messages are sent while no iterator is draining the queue
DrainSend ==
    /\ hist.phase # "draining"
    /\ \E a \in SendArgs : Send("peer", 2, a[1], a[2])
    /\ UNCHANGED hist

\* for .. in &mq, or in mq: the iterator is made
DrainIter(h) ==
    /\ hist.phase # "draining"
    /\ th["main"].st = "idle"
    /\ hist' = [phase |-> "draining", it |-> into_iter(h),
                snap |-> arrivals[fds[h].q], got |-> <<>>]
    /\ ret' = NoRet
    /\ UNCHANGED <<build, os, now, queues, names, fds, mq, raw, th, arrivals, acct>>

\* The loop calls next(): an element is taken, None ends the loop
DrainNext ==
    /\ hist.phase = "draining"
    /\ Receive("main", hist.it.mq, hist.it.max_msg_len)
    /\ LET item == next(hist.it, ret') IN
       hist' = CASE ret'.t # "main" -> hist
                 [] item.tag = "Some" ->
                       [hist EXCEPT !.got = Append(@, [priority |-> item.priority,
                                                       bytes |-> item.bytes])]
                 [] item.tag = "None" -> [hist EXCEPT !.phase = "done"]
                 [] OTHER -> [hist EXCEPT !.phase = "panicked"]

InitDrain == InitQueue /\ hist = NotDraining

NextDrain ==
    \/ DrainSend
    \/ \E h \in OpenedNonblocking : DrainIter(h)
    \/ DrainNext

SpecDrain == InitDrain /\ [][NextDrain]_vars

\* The (priority, bytes) pairs of the messages of log, sent in that order,
\* highest priority first and, within a priority, first sent first
RECURSIVE DrainOrder(_)
DrainOrder(log) ==
    IF log = <<>> THEN <<>>
    ELSE LET i == OldestHighest(log)
         IN  <<[priority |-> log[i].prio, bytes |-> log[i].body]>>
                 \o DrainOrder(Remove(log, i))

(* C26: draining a non-blocking queue through an iterator while nobody     *)
(* sends yields the queued messages, once each, highest priority first and *)
(* first sent first within a priority, each as its priority and its bytes  *)
(* cut to its length; when next() returns None all of them have been       *)
(* yielded and the queue is empty. The buffer has the queue's maximum      *)
(* message length, read when the iterator was made.                        *)
C26_Drain ==
    hist.phase \in {"draining", "done"} =>
        LET all == DrainOrder(hist.snap)
            q   == queues[fds[hist.it.mq].q]
        IN  /\ hist.it.max_msg_len = q.max_msg_len
            /\ Len(hist.got) <= Len(all)
            /\ hist.got = SubSeq(all, 1, Len(hist.got))
            /\ (hist.phase = "draining" \/ (Returned /\ ret.t = "main")) =>
                  Len(hist.got) + Len(q.msgs) = Len(all)
            /\ (hist.phase = "done" /\ Returned /\ ret.t = "main") =>
                  /\ ret.c.buflen = q.max_msg_len
                  /\ hist.got = all
                  /\ q.msgs = <<>>

\* The loop has ended after two elements: the message sent second, of
\* priority 1 and the greatest length, then the one sent first, of
\* priority 0 and shorter than the buffer
C26_Witness ==
    /\ hist.phase = "done" /\ Returned /\ ret.t = "main"
    /\ hist.snap = <<Msg(0, MsgA), Msg(1, MsgFull)>>
    /\ hist.got = <<[priority |-> 1, bytes |-> MsgFull],
                    [priority |-> 0, bytes |-> MsgA]>>
    /\ Len(MsgA) < hist.it.max_msg_len

----------------------------------------------------------------------------
(* A queue is created, filled, opened again by name, deleted and created   *)
(* anew while values opened earlier are still held. The values are         *)
(* non-blocking; hist holds the names created and not since deleted.       *)

\* OpenOptions::open of the name into a value the caller does not hold yet
OpenAs(v, how, opts) ==
    LET n == with_name_as_cstr(MqName)
    IN  /\ MainIdle /\ ~Held(v)
        /\ open_c("main", NameCall("open", how, MqName, n.cstr), opts, n.cstr)
        /\ mq' = IF ret'.kind = "Ok"
                 THEN [mq EXCEPT ![v] = PosixMq(ret'.fd)] ELSE mq
        /\ arrivals' = Live(queues, arrivals, <<>>)
        /\ acct' = Live(queues, acct, 0)
        /\ UNCHANGED <<build, os, now, raw, th>>

NextUnlink ==
    \/ \E v \in Values : OpenAs(v, "create", nonblocking(Opened[1]))
    \/ \E v \in Values : OpenAs(v, "existing", nonblocking(readwrite))
    \/ MainIdle /\ Unlink("main", MqName)
    \/ \E v \in Values : DropMq(v)
    \/ \E v \in Values, a \in IterSendArgs :
          Held(v) /\ Send("main", mq[v].mqd, a[1], a[2]) /\ UNCHANGED hist
    \/ \E v \in Values : ReceiveOn(v) /\ UNCHANGED hist

SpecUnlink == InitNames /\ [][NextUnlink]_vars

\* The queue of value v, and whether it still has a name
QueueOf(v) == fds[mq[v].mqd].q
Nameless(q) == \A p \in names : p[2] # q

\* A send or a receive on a descriptor whose queue has been deleted
OnDeleted ==
    /\ Returned /\ ret.c.op \in {"send", "receive"}
    /\ RetFd.open /\ Nameless(RetFd.q)

(* C23: when unlink(name) has succeeded and the name has not been created  *)
(* again, opening it without create and unlinking it again both fail with  *)
(* not-found; the unlink closes no descriptor and changes no queue that is *)
(* open, and every value opened before it still has its descriptor and its *)
(* queue: a send on it queues the message unless the queue is full, and a  *)
(* receive returns the queued message that is first in order unless the    *)
(* queue is empty.                                                         *)
C23_StateAfterUnlink ==
    /\ (Returned /\ ret.c.op \in {"open", "unlink"} /\ ret.c.how # "create"
           /\ ~ret.c.existed) =>
          /\ ret.kind = "NotFound" /\ ret.errno = "ENOENT"
          /\ Named(ret.c.cname) = {}
    /\ \A v \in Values :
          Held(v) => fds[mq[v].mqd].open /\ queues[QueueOf(v)].live
    /\ OnDeleted =>
          /\ ret.kind \in {"Ok", "WouldBlock"}
          /\ ret.c.op = "send" =>
                /\ ret.kind = "Ok" <=> Len(ret.before) < RetQueue.capacity
                /\ ret.kind = "Ok" =>
                      RetQueue.msgs = Insert(ret.before, Msg(ret.c.prio, ret.c.msg))
          /\ ret.c.op = "receive" =>
                /\ ret.kind = "Ok" <=> ret.before # <<>>
                /\ ret.kind = "Ok" =>
                      /\ ret.data = ret.expect.body /\ ret.prio = ret.expect.prio
                      /\ ret.data = Head(ret.before).body
                      /\ RetQueue.msgs = Tail(ret.before)

C23_UnlinkStep ==
    (ret'.t # "none" /\ ret'.c.op = "unlink" /\ ret'.kind = "Ok") =>
        /\ fds' = fds
        /\ \A v \in Values : Held(v) => queues'[QueueOf(v)] = queues[QueueOf(v)]

C23_Unlinked == []C23_StateAfterUnlink /\ [][C23_UnlinkStep]_vars

\* Opening the deleted name without create fails with not-found while a
\* value opened before the unlink holds the queue, which has lost its name
\* and kept its two messages
C23_Witness ==
    /\ Returned /\ ret.c.op = "open" /\ ret.c.how = "existing"
    /\ ret.kind = "NotFound" /\ names = {}
    /\ \E v \in Values :
          /\ Held(v) /\ Nameless(QueueOf(v))
          /\ Len(queues[QueueOf(v)].msgs) = Capacity

----------------------------------------------------------------------------
(* Threads share the queue: two send, one through the blocking descriptor  *)
(* and one through a non-blocking one, and two receive, likewise. Each     *)
(* send has a message of its own, numbered in its one byte. hist counts    *)
(* the sends begun, and keeps the numbers of the messages whose send has   *)
(* returned Ok and how often each number has been returned by a receive.   *)

MaxSends == Capacity + 1
Senders == [main |-> 1, peer |-> 2]
Receivers == [short |-> 1, long |-> 2]

\* What has returned is added to the history h
ShareLog(h) ==
    hist' = IF ret'.t # "none" /\ ret'.kind = "Ok"
            THEN IF IsSend(ret'.c.op)
                 THEN [h EXCEPT !.sent = @ \cup {ret'.c.msg[1]}]
                 ELSE [h EXCEPT !.got[ret'.data[1]] = @ + 1]
            ELSE h

InitShared ==
    /\ InitQueue
    /\ hist = [n |-> 0, sent |-> {}, got |-> [k \in 1..MaxSends |-> 0]]

NextShared ==
    \/ \E t \in DOMAIN Senders :
          /\ hist.n < MaxSends
          /\ Send(t, Senders[t], hist.n % 2, <<hist.n + 1>>)
          /\ ShareLog([hist EXCEPT !.n = @ + 1])
    \/ \E t \in DOMAIN Receivers :
          Receive(t, Receivers[t], MaxMsgLen) /\ ShareLog(hist)
    \/ \E t \in Threads : Eintr(t) /\ ShareLog(hist)
    \/ \E t \in Threads : Reissue(t) /\ ShareLog(hist)
    \/ \E t \in Threads : Return(t) /\ ShareLog(hist)

SpecShared == InitShared /\ [][NextShared]_vars

\* How many messages numbered k are queued, and how many the kernel has
\* handed to a receiver that has not returned yet
InQueue(k) == Cardinality({i \in 1..Len(queues[1].msgs) : queues[1].msgs[i].body = <<k>>})
InHand(k) ==
    Cardinality({t \in Threads : /\ th[t].st = "ready" /\ ~IsSend(th[t].op)
                                 /\ th[t].out.data = <<k>>})

\* The kernel has taken message k: its send has returned Ok, or is about to
Accepted(k) ==
    \/ k \in hist.sent
    \/ \E t \in Threads : th[t].st = "ready" /\ IsSend(th[t].op) /\ th[t].msg = <<k>>

(* C24: when threads send and receive at once through one descriptor and   *)
(* through several descriptors of the queue, every message that was sent   *)
(* with success is in exactly one place, in the queue or with the one      *)
(* receiver that got it: none is lost and none is received twice; and a    *)
(* message whose send did not succeed is received by nobody.               *)
C24_ExactlyOnce ==
    \A k \in 1..MaxSends :
        /\ hist.got[k] <= 1
        /\ hist.got[k] + InQueue(k) + InHand(k) = IF Accepted(k) THEN 1 ELSE 0

\* The thread receiving through the non-blocking descriptor returns the
\* third message after it received the second, while the thread that was
\* asleep on the blocking descriptor has been handed the first
C24_Witness ==
    /\ Returned /\ ret.t = "long" /\ ret.kind = "Ok" /\ ret.data = <<3>>
    /\ hist.got[2] = 1 /\ hist.got[3] = 1
    /\ th["short"].st = "ready" /\ InHand(1) = 1
    /\ hist.sent = {1, 2, 3}

----------------------------------------------------------------------------
(* open_c in two steps, mq_open and then, on NetBSD, set_cloexec(true),    *)
(* while another thread can close descriptors in between: set_cloexec      *)
(* fails only on a descriptor that has been closed. th["main"] is between  *)
(* the two steps when its st is "opened".                                  *)

\* ioctl(fd, FIOCLEX) or ioctl(fd, FIONCLEX): EBADF on a closed descriptor
ioctl_cloexec(mqd, cloexec) ==
    IF ~fds[mqd].open THEN [ret |-> -1, errno |-> "EBADF", desc |-> fds[mqd]]
    ELSE [ret |-> 0, errno |-> "none", desc |-> set_cloexec(fds[mqd], cloexec)]

\* The descriptor as mq_open leaves it: NetBSD ignores O_CLOEXEC
KernelOpened(flags, q) == [Description(flags, q) EXCEPT !.cloexec = (os = "linux")]

\* The call with what history adds: the step that ended it, whether its
\* mq_open created the queue, and the descriptor mq_open returned
Staged(c, stage, made, mqd) == c @@ [stage |-> stage, made |-> made, mqd |-> mqd]

\* open_c up to the return of mq_open; on Linux that is all of it
OpenKernel(how) ==
    LET n    == with_name_as_cstr(MqName)
        c    == NameCall("open", how, MqName, n.cstr)
        opts == OpenWith[how]
        r    == mq_open(n.cstr, opts.flags, opts.mode, open_c_attr(opts))
        kind == IF r.tag = "err" THEN ErrorKind(r.errno) ELSE "Ok"
    IN  /\ MainIdle
        /\ hist' = Created(c, kind)
        /\ CASE r.tag = "err" ->
                  /\ ret' = NameRet("main", Staged(c, "mq_open", FALSE, NoMqd), kind, r.errno, 0)
                  /\ UNCHANGED <<queues, names, fds, th>>
             [] r.tag = "open" ->
                  /\ fds' = [fds EXCEPT ![r.fd] = KernelOpened(opts.flags, r.q)]
                  /\ UNCHANGED <<queues, names>>
             [] OTHER ->
                  /\ fds' = [fds EXCEPT ![r.fd] = KernelOpened(opts.flags, r.q)]
                  /\ names' = names \cup {<<n.cstr, r.q>>}
                  /\ queues' = [queues EXCEPT ![r.q] =
                        NewQueue(DefaultCapacity[os], DefaultMaxMsgLen[os])]
        /\ r.tag # "err" =>
              IF os = "netbsd"
              THEN /\ th' = [th EXCEPT !["main"] =
                                [st |-> "opened", fd |-> r.fd,
                                 c |-> Staged(c, "set_cloexec", r.tag = "create", r.fd)]]
                   /\ ret' = NoRet
              ELSE /\ ret' = NameRet("main", Staged(c, "mq_open", r.tag = "create", r.fd),
                                     "Ok", "none", r.fd)
                   /\ UNCHANGED th
        /\ UNCHANGED <<build, os, now, mq, raw, arrivals, acct>>

\* The rest of open_c on NetBSD: mq.set_cloexec(true)?, and Ok(mq); when the
\* ioctl fails its error is returned and mq is dropped
OpenFixup ==
    LET fd == th["main"].fd
        r  == ioctl_cloexec(fd, TRUE)
    IN  /\ th["main"].st = "opened"
        /\ th' = [th EXCEPT !["main"] = Idle]
        /\ IF r.ret = -1
           THEN /\ ret' = NameRet("main", th["main"].c, ErrorKind(r.errno), r.errno, 0)
                /\ fds' = mq_close(fd)
                /\ queues' = Reap(queues, names, mq_close(fd))
           ELSE /\ ret' = NameRet("main", th["main"].c, "Ok", "none", fd)
                /\ fds' = [fds EXCEPT ![fd] = r.desc]
                /\ UNCHANGED queues
        /\ UNCHANGED <<build, os, now, names, mq, raw, arrivals, acct, hist>>

NextCloexec ==
    \/ \E how \in DOMAIN OpenWith : OpenKernel(how)
    \/ OpenFixup
    \/ \E f \in FDs : Drop(f)
    \/ MainIdle /\ Unlink("main", MqName)

SpecCloexec == InitNames /\ [][NextCloexec]_vars

\* An open has returned an error
OpenFailed == Returned /\ ret.c.op = "open" /\ ret.kind # "Ok"

\* The kinds of error with which mq_open fails in some reachable state
OpenFailureKinds ==
    {ErrorKind(e) : e \in {"ENOENT", "EEXIST", "EINVAL", "EACCES", "EMFILE", "ENOSPC"}}

(* C25: when setting close-on-exec after the kernel's open fails, open     *)
(* returns an error of a kind that no failure of the kernel's open has, so *)
(* that the caller can tell the two apart.                                 *)
C25_AsStated ==
    (OpenFailed /\ ret.c.stage = "set_cloexec") => ret.kind \notin OpenFailureKinds

\* C25, the part the code has: an open that returns Ok returns a descriptor
\* with close-on-exec set, on both platforms; when set_cloexec fails, open
\* returns the error of the ioctl and no handle, the descriptor is not left
\* open, and a queue that the call created is still there under its name.
C25_FixupHolds ==
    /\ (Returned /\ ret.c.op = "open" /\ ret.kind = "Ok") =>
          fds[ret.fd].open /\ fds[ret.fd].cloexec
    /\ (OpenFailed /\ ret.c.stage = "set_cloexec") =>
          /\ os = "netbsd"
          /\ ret.errno = "EBADF" /\ ret.kind = ErrorKind("EBADF")
          /\ ret.fd = 0 /\ ~fds[ret.c.mqd].open
          /\ ret.c.made => Named(ret.c.cname) # {}

\* On NetBSD an open that created the queue returns the error of the ioctl,
\* of the kind that an open without a free descriptor has too; the queue is
\* there under its name and no descriptor is open
C25_Witness ==
    /\ OpenFailed /\ ret.c.stage = "set_cloexec" /\ ret.c.made
    /\ ret.kind = "Other" /\ ret.kind = ErrorKind("EMFILE")
    /\ Named(ret.c.cname) # {} /\ FreeFds = FDs

----------------------------------------------------------------------------
(* Non-blocking mode changed after the open: values opened on the queue    *)
(* and cloned, each with a descriptor of its own, call set_nonblocking and *)
(* is_nonblocking, send and receive.                                       *)

\* A set_nonblocking that turns non-blocking mode on whatever it is given
set_nonblocking_on(mqd, on) ==
    IF ~fds[mqd].open THEN [ok |-> FALSE, errno |-> "EBADF", fds |-> fds]
    ELSE [ok |-> TRUE, errno |-> "none",
          fds |-> [f \in FDs |->
                     IF fds[f].open /\ fds[f].file = fds[mqd].file
                     THEN [fds[f] EXCEPT !.nonblocking = TRUE]
                     ELSE fds[f]]]

\* set_nonblocking: mq_setattr with mq_flags O_NONBLOCK or 0 sets or clears
\* the flag of the open description, for every descriptor there is of it
set_nonblocking(mqd, on) ==
    IF ~fds[mqd].open THEN [ok |-> FALSE, errno |-> "EBADF", fds |-> fds]
    ELSE [ok |-> TRUE, errno |-> "none",
          fds |-> [f \in FDs |->
                     IF fds[f].open /\ fds[f].file = fds[mqd].file
                     THEN [fds[f] EXCEPT !.nonblocking = on]
                     ELSE fds[f]]]

SetNonblocking(v, on) ==
    LET r == set_nonblocking(mq[v].mqd, on)
    IN  /\ MainIdle /\ Held(v)
        /\ ret' = MqRet("set_nonblocking", v,
                        IF r.ok THEN "Ok" ELSE ErrorKind(r.errno), r.errno,
                        on)
        /\ fds' = r.fds
        /\ UNCHANGED <<build, os, now, queues, names, mq, raw, th, arrivals, acct, hist>>

NextMode ==
    \/ \E v \in Values : OpenMq(v)
    \/ \E v, w \in Values : TryClone(v, w)
    \/ \E v \in Values : DropMq(v)
    \/ \E v \in Values, b \in BOOLEAN : SetNonblocking(v, b)
    \/ \E v \in Values : IsNonblocking(v)
    \/ \E v \in Values : SendOn(v) /\ UNCHANGED hist
    \/ \E v \in Values : ReceiveOn(v) /\ UNCHANGED hist

SpecMode == InitNames /\ [][NextMode]_vars

\* The step has returned Ok from set_nonblocking
SetReturns == ret'.t # "none" /\ ret'.c.op = "set_nonblocking" /\ ret'.kind = "Ok"

\* The step changes the mode of the descriptor of v, which v keeps
ModeChanged(v) ==
    /\ Held(v) /\ mq'[v] = mq[v]
    /\ fds'[mq[v].mqd].nonblocking # fds[mq[v].mqd].nonblocking

\* What holds of set_nonblocking and is_nonblocking in every state: after a
\* set_nonblocking(b) that succeeded the descriptor has mode b,
\* is_nonblocking returns the mode of the descriptor, and a receive from an
\* empty queue through a non-blocking descriptor returns WouldBlock
ModeSeen ==
    /\ (Returned /\ ret.c.op = "set_nonblocking" /\ ret.kind = "Ok") =>
          /\ fds[ret.c.mqd].nonblocking = ret.val
          /\ is_nonblocking(ret.c.mqd) = ret.val
    /\ (Returned /\ ret.c.op = "is_nonblocking" /\ fds[ret.c.mqd].open) =>
          ret.val = fds[ret.c.mqd].nonblocking
    /\ (Returned /\ ret.c.op = "receive" /\ RetFd.open /\ RetFd.nonblocking
           /\ ret.before = <<>>) =>
          ret.kind = "WouldBlock" /\ RetQueue.msgs = <<>>

\* A set_nonblocking changes no queue, no name and, of the descriptors,
\* nothing but the mode
ModeOnly ==
    SetReturns =>
        /\ queues' = queues /\ names' = names /\ mq' = mq
        /\ \A f \in FDs :
              [fds'[f] EXCEPT !.nonblocking = FALSE] = [fds[f] EXCEPT !.nonblocking = FALSE]
        /\ \A f \in FDs : fds[f].open =>
              [attributes(f)' EXCEPT !.nonblocking = FALSE]
                  = [attributes(f) EXCEPT !.nonblocking = FALSE]

SumOf(d, t0, timeout) ==
    /\ d.tv_nsec >= 0 /\ d.tv_nsec < NANO
    /\ \E carry \in {0, 1} :
          /\ d.tv_sec = t0.tv_sec + timeout.secs + carry
          /\ d.tv_nsec = t0.tv_nsec + timeout.nanos - carry * NANO
    /\ d.tv_sec <= TIME_MAX
    /\ NotAfter(t0, d)

(* C28: whenever the conversion of a timeout succeeds, the deadline is the *)
(* time of the call plus the timeout exactly, its nanoseconds are at least *)
(* 0 and less than 10^9 with the carry gone into the seconds, and it is    *)
(* not before the time of the call.                                        *)
C28_ExactSum ==
    /\ (Returned /\ ret.c.op \in TimeoutOps /\ ret.c.n >= 1) =>
          SumOf(ret.c.expires.ts, ret.c.t0, ret.c.arg)
    /\ \A t \in Threads :
          (th[t].st # "idle" /\ th[t].op \in TimeoutOps) =>
              SumOf(th[t].expires.ts, th[t].t0, th[t].arg)

\* A timeout of a second less a nanosecond, at half past the second of the
\* day before the last that time_t holds: the deadline is in the last second
C28_Witness ==
    /\ Returned /\ ret.c.op = "receive_timeout" /\ ret.c.n >= 1
    /\ ret.c.arg = Duration(0, NANO - 1)
    /\ ret.c.t0 = new_timespec(TIME_MAX - 1, NANO \div 2)
    /\ ret.c.expires.ts = new_timespec(TIME_MAX, NANO \div 2 - 1)

----------------------------------------------------------------------------
(* The queue of the send and receive tests again, with attributes() called *)
(* on its descriptors between the sends and the receives.                  *)

\* attributes() on descriptor h
AttributesOf(h) ==
    /\ MainIdle
    /\ ret' = [t |-> "main", c |-> [op |-> "attributes", h |-> h],
               kind |-> "Ok", errno |-> "none", val |-> attributes(h),
               before |-> Queued(h)]
    /\ UNCHANGED <<build, os, now, queues, names, fds, mq, raw, th, arrivals, acct, hist>>

NextCount ==
    \/ NextOrder
    \/ \E h \in FDs : AttributesOf(h)

SpecCount == Init /\ [][NextCount]_vars

(* C29: in every state the queue holds at least 0 and at most capacity     *)
(* messages, as many as the sends that have succeeded less the receives    *)
(* that have (a call that the kernel has completed for a sleeping thread   *)
(* counting as having succeeded), none of them longer than max_msg_len; a  *)
(* send of a longer message returns Other and a send with a priority above *)
(* the platform's greatest returns InvalidInput, and the queue is as it    *)
(* was; attributes() returns the capacity and the max_msg_len the queue    *)
(* was created with and the number of messages in it.                      *)
C29_QueueBounds ==
    /\ \A q \in QIds :
          /\ Len(queues[q].msgs) >= 0
          /\ Len(queues[q].msgs) <= queues[q].capacity
          /\ Len(queues[q].msgs) = acct[q] - Cardinality(Completed(q, FALSE))
                                       + Cardinality(Completed(q, TRUE))
          /\ \A i \in 1..Len(queues[q].msgs) :
                Len(queues[q].msgs[i].body) <= queues[q].max_msg_len
    /\ (Returned /\ ret.c.op = "send" /\ Writable(RetFd)
           /\ Len(ret.c.msg) > RetQueue.max_msg_len) =>
          /\ ret.kind = "Other" /\ ret.errno = "EMSGSIZE"
          /\ RetQueue.msgs = ret.before
    /\ (Returned /\ ret.c.op = "send" /\ Writable(RetFd)
           /\ Len(ret.c.msg) <= RetQueue.max_msg_len
           /\ ret.c.prio > MQ_PRIO_MAX[os]) =>
          /\ ret.kind = "InvalidInput" /\ ret.errno = "EINVAL"
          /\ RetQueue.msgs = ret.before
    /\ (Returned /\ ret.c.op = "attributes") =>
          /\ ret.val.capacity = Opened[1].capacity
          /\ ret.val.max_msg_len = Opened[1].max_msg_len
          /\ ret.val.current_messages = Len(RetQueue.msgs)
          /\ RetQueue.msgs = ret.before

\* attributes() on the full queue, after as many sends have returned Ok as
\* the queue holds and no receive has
C29_Witness ==
    /\ Returned /\ ret.c.op = "attributes"
    /\ ret.val = [max_msg_len |-> MaxMsgLen, capacity |-> Capacity,
                  current_messages |-> Capacity,
                  nonblocking |-> RetFd.nonblocking]
    /\ acct[RetFd.q] = Capacity

\* ---------------------------------------------------------------------
\* The OpenOptions builder: a builder is made by readonly(), writeonly() or
\* readwrite() and then changed by any sequence of setter calls.  hist
\* holds the builder together with a log of the calls made on it: the
\* constructor used, the last disposition setter, whether nonblocking() was
\* called, the setter called last and the flags that call found.

ModeArgs == {384, 420, 511}
SizeArgs == {0, Capacity, MaxMsgLen}
DispositionSetters == {"create", "create_new", "existing"}

Built(opts, access) ==
    [opts |-> opts, access |-> access, last |-> "none", nb |-> FALSE, by |-> "new",
     found |-> {}]

Called(opts, setter) ==
    [hist EXCEPT !.opts = opts,
                 !.last = IF setter \in DispositionSetters THEN setter ELSE @,
                 !.nb = @ \/ setter = "nonblocking",
                 !.by = setter,
                 !.found = hist.opts.flags]

SetOption(opts, setter) ==
    /\ hist' = Called(opts, setter)
    /\ ret' = NoRet
    /\ UNCHANGED <<build, os, now, queues, names, fds, mq, raw, th, arrivals, acct>>

OptionsMode == \E m \in ModeArgs : SetOption(mode(hist.opts, m), "mode")
OptionsMaxMsgLen == \E n \in SizeArgs : SetOption(max_msg_len(hist.opts, n), "max_msg_len")
OptionsCapacity == \E n \in SizeArgs : SetOption(capacity(hist.opts, n), "capacity")
OptionsCreate == SetOption(create(hist.opts), "create")
OptionsCreateNew == SetOption(create_new(hist.opts), "create_new")
OptionsExisting == SetOption(existing(hist.opts), "existing")
OptionsNonblocking == SetOption(nonblocking(hist.opts), "nonblocking")

InitOptions ==
    /\ os \in Platforms
    /\ build = "release"
    /\ now = new_timespec(0, 0)
    /\ queues = [q \in QIds |-> NoQueue]
    /\ names = {}
    /\ fds = [f \in FDs |-> Closed]
    /\ mq = [v \in Values |-> NoMq]
    /\ raw = {}
    /\ th = [t \in Threads |-> Idle]
    /\ ret = NoRet
    /\ arrivals = [q \in QIds |-> <<>>]
    /\ acct = [q \in QIds |-> 0]
    /\ hist \in {Built(readonly, {}), Built(writeonly, {"O_WRONLY"}),
                 Built(readwrite, {"O_RDWR"})}

NextOptions ==
    \/ OptionsMode
    \/ OptionsMaxMsgLen
    \/ OptionsCapacity
    \/ OptionsCreate
    \/ OptionsCreateNew
    \/ OptionsExisting
    \/ OptionsNonblocking

SpecOptions == InitOptions /\ [][NextOptions]_vars

\* What mq_open() will do with the builder's flags
Disposition(opts) ==
    IF "O_CREAT" \in opts.flags
    THEN IF "O_EXCL" \in opts.flags THEN "create_new" ELSE "create"
    ELSE IF "O_EXCL" \in opts.flags THEN "exclusive without create" ELSE "existing"

\* The fields of the builder that the setter called last does not name
Unnamed(opts, setter) ==
    CASE setter = "mode" -> [opts EXCEPT !.mode = 0]
      [] setter = "max_msg_len" -> [opts EXCEPT !.max_msg_len = 0]
      [] setter = "capacity" -> [opts EXCEPT !.capacity = 0]
      [] setter \in DispositionSetters -> [opts EXCEPT !.flags = @ \ {"O_CREAT", "O_EXCL"}]
      [] setter = "nonblocking" -> [opts EXCEPT !.flags = @ \ {"O_NONBLOCK"}]
      [] OTHER -> opts

C30_BuilderState ==
    /\ Disposition(hist.opts) = (IF hist.last = "none" THEN "existing" ELSE hist.last)
    /\ "O_EXCL" \in hist.opts.flags => "O_CREAT" \in hist.opts.flags
    /\ hist.nb => "O_NONBLOCK" \in hist.opts.flags
    /\ hist.opts.flags \cap O_ACCMODE = hist.access

C30_SetterStep ==
    /\ Unnamed(hist'.opts, hist'.by) = Unnamed(hist.opts, hist'.by)
    /\ "O_NONBLOCK" \in hist.opts.flags => "O_NONBLOCK" \in hist'.opts.flags
    /\ hist'.opts.flags \cap O_ACCMODE = hist.opts.flags \cap O_ACCMODE

\* C30: after any sequence of setter calls the creation disposition is that
\* of the last create(), create_new() or existing() call (open-existing when
\* none was called), O_EXCL is never set without O_CREAT, O_NONBLOCK stays
\* set once nonblocking() was called, and each setter leaves the access mode
\* and every field it does not name as they were.
C30_Setters == []C30_BuilderState /\ [][C30_SetterStep]_vars

\* create() called on a non-blocking write-only builder that create_new()
\* had made exclusive, with the mode and both sizes set before
C30_Witness ==
    /\ hist.by = "create"
    /\ hist.found = {"O_WRONLY", "O_CREAT", "O_EXCL", "O_NONBLOCK"}
    /\ hist.access = {"O_WRONLY"}
    /\ hist.nb
    /\ hist.opts.flags = {"O_WRONLY", "O_CREAT", "O_NONBLOCK"}
    /\ hist.opts.mode = 420
    /\ hist.opts.capacity = Capacity
    /\ hist.opts.max_msg_len = MaxMsgLen

====
